---- MODULE Spec2Model ----
(***************************************************************************)
(* teapot: resolution of a manifest tree into a Leaf tree                  *)
(* (Leaf::from_config) and the build of that tree (Leaf::compile,          *)
(* Leaf::link, brew, pour, sip) on top of the Compiler engine, with the     *)
(* scaffolding commands new and add. Spec starts a process under a         *)
(* subcommand that cli.rs declares; SpecMatched starts it in the arms of   *)
(* fn main (fmt, lint, sip) whose variants cli.rs does not declare.        *)
(*                                                                         *)
(* Encoding of strings the model has to take apart or put together:        *)
(*   a directory path is the sequence of its components, <<"b", "c">> is   *)
(*   b/c and <<>> is the empty path "";                                    *)
(*   a file name is the sequence of its dot separated segments,            *)
(*   <<"foo", "x", "c">> is foo.x.c;                                       *)
(*   a file path is [dir |-> directory path, file |-> file name];          *)
(*   an Option is a sequence of length 0 (None) or 1 (Some);                *)
(*   a symbol name is the sequence of the pieces it is cut into, with the  *)
(*   piece test_ standing for these five characters: <<"test_", "a">> is   *)
(*   test_a and <<"a", "test_">> is atest_.                                *)
(***************************************************************************)
EXTENDS Integers, Sequences, FiniteSets, TLC

VARIABLES
    host,       \* std::env::consts::OS of the running build
    queue,      \* the invocations of teapot that follow in the same directory
    fs,         \* the package directories: manifest and src/ entries of each
    command,    \* the arm of fn main taken (engine: calls on one Compiler)
    cmd,        \* BrewData: the release and debug switches
    pc,         \* position in the command: start, compile, inspect, write_main,
                \* link, run, done, failed
    leaf,       \* the Leaf tree returned by Leaf::from_config (<<>> before)
    stack,      \* the active Leaf::compile calls, outermost first
    phase,      \* where the innermost call stands: deps, units, archive, binary
    compiler,   \* the Compiler of the innermost call
    sources,    \* the paths handed to Compiler::compile
    units,      \* state of each parallel compilation of the current compile
    progress,   \* the AtomicUsize of the current Compiler::compile
    symbols,    \* the lines nm printed for the root archive (<<>> before)
    main_c,     \* the contents of target/main.c (<<>> while not written)
    log         \* the toolchain invocations issued by the main thread, in order

vars == <<host, queue, fs, command, cmd, pc, leaf, stack, phase, compiler, sources,
          units, progress, symbols, main_c, log>>

----------------------------------------------------------------------------
(* Bounds of the explored inputs *)

\* longest declared-feature list and longest requested-feature list
MaxFeatures == 2

\* most entries in the src directory of the package whose sources vary
MaxFiles == 3

\* most lines in the output of nm
MaxSymbols == 3

\* most calls made on one Compiler taken by itself
MaxCalls == 4

\* the calls of from_config that have not returned
MaxDepth == 6

----------------------------------------------------------------------------
(* Sequence helpers *)

Range(s) == {s[i] : i \in 1..Len(s)}

\* Vec::contains / slice::contains
Contains(s, e) == \E i \in 1..Len(s) : s[i] = e

SeqsUpTo(S, n) == UNION {[1..k -> S] : k \in 0..n}

\* the elements of the sequence pool that belong to set, in pool order
RECURSIVE Pick(_, _)
Pick(pool, set) ==
    IF pool = <<>> THEN <<>>
    ELSE (IF Head(pool) \in set THEN <<Head(pool)>> ELSE <<>>) \o Pick(Tail(pool), set)

RECURSIVE Flatten(_)
Flatten(ss) == IF ss = <<>> THEN <<>> ELSE Head(ss) \o Flatten(Tail(ss))

----------------------------------------------------------------------------
(* config.rs: the typed manifest *)

BASE_FEATURES == <<"windows", "linux">>

\* the values of std::env::consts::OS the model runs under
Hosts == {"linux", "windows", "macos"}

\* a dependency declaration with a path key
Dependency(name, path, features) ==
    [name |-> name, path |-> <<path>>, features |-> features]

\* a HashMap<String, Vec<_>> is a function from its keys; HashMap::get
Get(map, key) == IF key \in DOMAIN map THEN <<map[key]>> ELSE <<>>

TeaConfig(name, features, dependencies, defines, libraries) ==
    [package |-> [name |-> name, version |-> "0.1.0", features |-> features],
     dependencies |-> dependencies,
     defines |-> defines,
     libraries |-> libraries]

\* the names TeaConfig::parse hands to the three section parsers
AllFeatures(declared) == BASE_FEATURES \o declared

\* tea.toml as written: a section holds its entries (key = value) and then its
\* sub-tables ([section.name]), in the order of the document
Table(name, entries) == [name |-> name, entries |-> entries]

Section(base, tables) == [base |-> base, tables |-> tables]

Document(name, features, dependencies, defines, libraries) ==
    [package |-> [name |-> name, version |-> "0.1.0", features |-> features],
     dependencies |-> dependencies,
     defines |-> defines,
     libraries |-> libraries]

\* the sub-tables of a section that a feature names, by name: the HashMap
\* the section parsers build
TablesOf(section, feature_names) ==
    [k \in {section.tables[i].name : i \in 1..Len(section.tables)}
            \cap Range(feature_names) |->
        (CHOOSE t \in Range(section.tables) : t.name = k).entries]

\* the names of the sub-tables of a section that no feature names, in the
\* order of the document: the section parsers take them for entries
RECURSIVE StrayTables(_, _)
StrayTables(tables, feature_names) ==
    IF tables = <<>> THEN <<>>
    ELSE (IF Contains(feature_names, Head(tables).name) THEN <<>>
          ELSE <<Head(tables).name>>)
         \o StrayTables(Tail(tables), feature_names)

\* an entry of a section has the name of a feature: as_table().unwrap() on a
\* value panics
ValueForTable(names, feature_names) ==
    \E i \in 1..Len(names) : Contains(feature_names, names[i])

\* Dependencies::parse panics: a sub-table taken for an entry
\* (as_value().unwrap()) or an entry taken for a sub-table
DependenciesPanics(section, feature_names) ==
    \/ StrayTables(section.tables, feature_names) # <<>>
    \/ ValueForTable([i \in 1..Len(section.base) |-> section.base[i].name], feature_names)

\* Dependencies::parse
DependenciesParse(section, feature_names) ==
    [base |-> section.base, features |-> TablesOf(section, feature_names)]

\* Defines::parse panics, as Dependencies::parse does (parse_define,
\* as_value().unwrap())
DefinesPanics(section, feature_names) ==
    \/ StrayTables(section.tables, feature_names) # <<>>
    \/ ValueForTable([i \in 1..Len(section.base) |-> section.base[i].name], feature_names)

\* Defines::parse
DefinesParse(section, feature_names) ==
    [base |-> section.base, features |-> TablesOf(section, feature_names)]

\* Libraries::parse panics: an entry taken for a sub-table
LibrariesPanics(section, feature_names) ==
    ValueForTable(section.base, feature_names)

\* Libraries::parse: every key of the section that no feature names is a
\* library, the name of a sub-table too
LibrariesParse(section, feature_names) ==
    [base |-> section.base \o StrayTables(section.tables, feature_names),
     features |-> TablesOf(section, feature_names)]

\* TeaConfig::parse of a document panics in a section parser
ParsePanics(document) ==
    LET all_features == AllFeatures(document.package.features)
    IN \/ DependenciesPanics(document.dependencies, all_features)
       \/ DefinesPanics(document.defines, all_features)
       \/ LibrariesPanics(document.libraries, all_features)

\* TeaConfig::parse of a document, the Some it returns
Parse(document) ==
    LET all_features == AllFeatures(document.package.features)
    IN TeaConfig(document.package.name, document.package.features,
                 DependenciesParse(document.dependencies, all_features),
                 DefinesParse(document.defines, all_features),
                 LibrariesParse(document.libraries, all_features))

----------------------------------------------------------------------------
(* The package directories the model builds *)

Define(name, value) == [name |-> name, value |-> value]

\* ./tea.toml: package app
AppConfig ==
    Document("app", <<"x">>,
        Section(<<Dependency("b", <<"b">>, <<"x">>)>>,
                <<Table("linux", <<Dependency("lx", <<"lx">>, <<>>)>>)>>),
        Section(<<Define("APP", <<>>)>>,
                <<Table("x", <<Define("APP_X", <<"1">>)>>),
                  Table("linux", <<Define("APP_LINUX", <<>>)>>)>>),
        Section(<<"pthread">>, <<Table("linux", <<"dl">>)>>))

\* b/tea.toml: package b asks c for the features req
BConfig(req) ==
    Document("b", <<"x", "y">>,
        Section(<<Dependency("c", <<"c">>, req)>>, <<>>),
        Section(<<>>,
                <<Table("x", <<Define("B_X", <<>>)>>),
                  Table("y", <<Define("B_Y", <<>>)>>)>>),
        Section(<<"m">>, <<Table("x", <<"bx">>)>>))

\* the sub-tables of a list that the declared features name
RECURSIVE WrittenTables(_, _)
WrittenTables(tables, declared) ==
    IF tables = <<>> THEN <<>>
    ELSE (IF Contains(declared, Head(tables).name) THEN <<Head(tables)>> ELSE <<>>)
         \o WrittenTables(Tail(tables), declared)

\* b/c/tea.toml: package c declares the features decl; its manifest writes,
\* in each section, a sub-table x and a sub-table y where decl names them. The
\* directory d0 is declared twice: as base dependency d0 and, under y, as d0x
\* with feature x
CConfig(decl) ==
    Document("c", decl,
        Section(<<Dependency("d0", <<"d0">>, <<>>)>>,
                WrittenTables(<<Table("x", <<Dependency("dx", <<"dx">>, <<>>)>>),
                          Table("y", <<Dependency("dy", <<"dy">>, <<"x">>),
                                       Dependency("d0x", <<"d0">>, <<"x">>)>>)>>, decl)),
        Section(<<Define("A", <<>>)>>,
                WrittenTables(<<Table("x", <<Define("B", <<"1">>)>>),
                          Table("y", <<Define("C", <<"2">>), Define("A", <<>>)>>)>>, decl)),
        Section(<<"z">>,
                WrittenTables(<<Table("x", <<"ssl">>), Table("y", <<"curl", "z">>)>>, decl)))

\* a package without dependencies that declares feature x
LeafConfig(name) ==
    Document(name, <<"x">>,
        Section(<<>>, <<>>),
        Section(<<Define("D", <<>>)>>, <<Table("x", <<Define("D_X", <<>>)>>)>>),
        Section(<<>>, <<Table("x", <<name>>)>>))

\* the entries a src directory may hold, in the order the walk yields them
FilePool ==
    << <<"foo", "c">>, <<"foo", "x", "c">>, <<"foo", "y", "c">>,
       <<"x", "c">>, <<"windows", "c">>, <<"foo", "linux", "c">>,
       <<"foo", "h">> >>

\* a package directory: whether it holds a file tea.toml, the document that
\* file reads as (None: the text is no TOML document), the entries of src and
\* the directories below it that are no package directories (src, include,
\* target/objects/...), each as the path from the package directory
Dir(manifest, src, dirs) ==
    [tea_toml |-> TRUE, manifest |-> manifest, src |-> src, dirs |-> dirs]

\* a package with sources only, and a library package with its headers
Program == {<<"src">>}

Library == {<<"src">>, <<"include">>}

\* the directories a path names on its way, from the directory the process
\* runs in, when each of them is there: a component . names the directory
\* itself and a component .. the one above
RECURSIVE Created(_, _)
Created(rest, acc) ==
    IF rest = <<>> THEN {}
    ELSE LET at == IF Head(rest) = "." THEN acc
                   ELSE IF Head(rest) = ".." /\ acc # <<>> /\ acc[Len(acc)] # ".."
                        THEN SubSeq(acc, 1, Len(acc) - 1)
                        ELSE Append(acc, Head(rest))
         IN {at} \cup Created(Tail(rest), at)

\* std::fs::create_dir_all of a path below the directory the process runs in:
\* the directory and every directory on the way to it are there afterwards
create_dir_all(fsys, dir) ==
    [fsys EXCEPT ![<<>>].dirs = @ \cup (Created(dir, <<>>) \ DOMAIN fsys)]

\* the package directories with a directory target in the directory the
\* process runs in
WithTarget(fsys) == create_dir_all(fsys, <<"target">>)

\* ./tea.toml with another package name
RootConfig(name) == [AppConfig EXCEPT !.package.name = name]

\* the package directories with sound manifests; a manifest that parses is
\* Some(config)
SoundFileSystem(root, decl, req, files) ==
    LET dirs == {<<>>, <<"b">>, <<"lx">>, <<"b", "c">>, <<"b", "c", "d0">>,
                 <<"b", "c", "dx">>, <<"b", "c", "dy">>}
    IN [d \in dirs |->
          CASE d = <<>> -> Dir(<<RootConfig(root)>>, << <<"main", "c">>, <<"app", "h">> >>, Program)
            [] d = <<"b">> -> Dir(<<BConfig(req)>>, << <<"b", "c">>, <<"net", "x", "c">> >>, Library)
            [] d = <<"lx">> -> Dir(<<LeafConfig("lx")>>, << <<"lx", "c">> >>, Library)
            [] d = <<"b", "c">> -> Dir(<<CConfig(decl)>>, files, Program)
            [] d = <<"b", "c", "d0">> -> Dir(<<LeafConfig("d0")>>, << <<"d0", "c">> >>, Library)
            [] d = <<"b", "c", "dx">> -> Dir(<<LeafConfig("dx")>>, << <<"dx", "c">> >>, Program)
            [] OTHER -> Dir(<<LeafConfig("dy")>>, << <<"dy", "x", "c">> >>, Program)]

\* the ways the manifest of a directory can be out of the ordinary: a
\* directory without tea.toml, a tea.toml that is no TOML document, a first
\* base dependency written without a path key, a sub-table [dependencies.macos] that no
\* feature names, a sub-table [libraries.macos] that no feature names
Defects == {"missing", "unparsable", "no_path", "undeclared", "stray"}

Defect(dir, how) == [dir |-> dir, how |-> how]

\* the package directories with at most one defect (an Option)
FileSystem(root, decl, req, files, defect) ==
    LET sound == SoundFileSystem(root, decl, req, files)
    IN IF defect = <<>> THEN sound
       ELSE LET dir == defect[1].dir
            IN CASE defect[1].how = "missing" ->
                      [sound EXCEPT ![dir].tea_toml = FALSE, ![dir].manifest = <<>>]
                 [] defect[1].how = "unparsable" ->
                      [sound EXCEPT ![dir].manifest = <<>>]
                 [] defect[1].how = "no_path" ->
                      [sound EXCEPT ![dir].manifest[1].dependencies.base[1].path = <<>>]
                 [] defect[1].how = "undeclared" ->
                      [sound EXCEPT ![dir].manifest[1].dependencies.tables =
                          Append(@, Table("macos", <<Dependency("m", <<"lx">>, <<>>)>>))]
                 [] OTHER ->
                      [sound EXCEPT ![dir].manifest[1].libraries.tables =
                          Append(@, Table("macos", <<"objc">>))]

FeatureNames == {"x", "y"}

FeatureLists == SeqsUpTo(FeatureNames, MaxFeatures)

FileLists ==
    {Pick(FilePool, S) : S \in {T \in SUBSET Range(FilePool) : Cardinality(T) <= MaxFiles}}

DefaultFiles == << <<"c", "c">>, <<"c", "y", "c">> >>

BrewData(release, debug) == [release |-> release, debug |-> debug]

\* cli.rs, the variants of the enum Commands
Subcommands == {"new", "brew", "pour", "add"}

\* the variants Format, Lint and Sip that fn main matches on and the enum
\* Commands of cli.rs does not declare: the parser of cli.rs rejects the three
\* names
MatchedOnly == {"fmt", "lint", "sip"}

\* fn main, the arms of the match
Commands == Subcommands \cup MatchedOnly

\* the subcommands that resolve the tree and build it
Builds == {"brew", "pour", "sip"}

NewData(lib, bin, name) == [lib |-> lib, bin |-> bin, name |-> name]

\* --features is an Option<String>: the text is a sequence of names and
\* commas
AddData(features, path, name) == [features |-> features, path |-> path, name |-> name]

\* the scaffolding commands explored: a package directory that is new and one
\* that exists, with every setting of --lib and --bin
NewChoices ==
    {NewData(lib, bin, name) : lib \in BOOLEAN, bin \in BOOLEAN, name \in {"fresh", "b"}}

\* the add commands explored: a new name, the name of a dependency and the
\* name of a sub-table of [dependencies]; a directory with a manifest, one
\* that does not exist and one above the project, a path with a component .
\* and one with .. after a directory that does not exist; no --features, one
\* name, two names, a trailing comma, the empty text
AddChoices ==
    {AddData(<<>>, <<"lx">>, "n"),
     AddData(<<>>, <<".", "lx">>, "n"),
     AddData(<<>>, <<"nowhere", "..", "lx">>, "n"),
     AddData(<< <<"x">> >>, <<"b", "c", "dx">>, "n"),
     AddData(<< <<"x", ",", "y">> >>, <<"b">>, "b"),
     AddData(<< <<"x", ",">> >>, <<"lx">>, "n"),
     AddData(<<>>, <<"lx">>, "linux"),
     AddData(<< <<>> >>, <<"nowhere">>, "n"),
     AddData(<<>>, <<"..", "..">>, "n")}

\* add with a path through b/c/dy, a directory c does not depend on here
ThroughChoices ==
    {AddData(<<>>, <<"b", "c", "dy", "..", "dx">>, "n"),
     AddData(<<>>, <<"b", "c", "dy", "src", "..", "..", "..", "..", "lx">>, "n")}

\* add with a path through a directory that is no package directory: the
\* include directory of b, an include directory c does not have, the target
\* directory of the root and the directory of the objects of b in it
AsideChoices ==
    {AddData(<<>>, <<"b", "include", "..", "c", "dx">>, "n"),
     AddData(<<>>, <<"b", "c", "include", "..", "dx">>, "n"),
     AddData(<<>>, <<"target", "..", "lx">>, "n"),
     AddData(<<>>, <<"target", "objects", "b", "..", "..", "..", "lx">>, "n")}

\* an invocation of teapot with its arguments
Teapot(command_, data) == [command |-> command_, cmd |-> data]

\* the invocations that follow the scaffolding commands: the project is built
Brewed == <<Teapot("brew", BrewData(FALSE, FALSE))>>

RootNames == {"app", "b", "tea"}

Input(h, d, r, f, c, command_, root, defect) ==
    [host |-> h, decl |-> d, req |-> r, files |-> f, cmd |-> c,
     command |-> command_, root |-> root, defect |-> defect,
     script |-> IF command_ \in {"new", "add"} THEN Brewed ELSE <<>>]

\* the defects explored: each kind in the directories that can have it
DefectChoices ==
    {<<Defect(dir, how)>> :
        dir \in {<<>>, <<"b">>, <<"lx">>, <<"b", "c">>, <<"b", "c", "d0">>,
                 <<"b", "c", "dy">>},
        how \in {"missing", "unparsable"}}
    \cup {<<Defect(dir, how)>> :
            dir \in {<<>>, <<"b">>, <<"b", "c">>},
            how \in Defects \ {"missing", "unparsable"}}

\* the explored inputs, each under a subcommand that cli.rs declares: every
\* declared and requested list of c on a host with a platform feature and on
\* one without, every src directory of c under the feature states of x
\* (windows: x declared, not requested), every BrewData, brew and pour under
\* every root package name, every defect with the defective directory reached
\* or not, the scaffolding commands new and add followed by brew, and add
\* and brew after a brew of the project
Inputs ==
    {Input(h, d, r, DefaultFiles, BrewData(FALSE, FALSE), "brew", "app", <<>>) :
        h \in Hosts \ {"windows"}, d \in FeatureLists, r \in FeatureLists}
    \cup
    {Input("linux", d, r, f, BrewData(FALSE, FALSE), "brew", "app", <<>>) :
        d \in {<<>>, <<"x">>}, r \in {<<>>, <<"x">>}, f \in FileLists}
    \cup
    {Input("windows", <<"x">>, <<>>, f, BrewData(FALSE, FALSE), "brew", "app", <<>>) :
        f \in FileLists}
    \cup
    {Input("linux", <<"x">>, <<"x">>, DefaultFiles, BrewData(r, g), "brew", "app", <<>>) :
        r \in BOOLEAN, g \in BOOLEAN}
    \cup
    {Input("linux", <<"x">>, <<"x">>, DefaultFiles, BrewData(FALSE, FALSE), c, n, <<>>) :
        c \in {"brew", "pour"}, n \in RootNames}
    \cup
    {Input(h, <<"x", "y">>, r, DefaultFiles, BrewData(FALSE, FALSE), "brew", "app", defect) :
        h \in {"linux", "windows"}, r \in {<<>>, <<"y">>}, defect \in DefectChoices}
    \cup
    {Input("linux", <<"x">>, <<"x">>, DefaultFiles, data, "new", "app", <<>>) :
        data \in NewChoices}
    \cup
    {Input("linux", <<"x">>, <<"x">>, DefaultFiles, data, "add", "app", defect) :
        data \in AddChoices,
        defect \in {<<>>, <<Defect(<<>>, "missing")>>, <<Defect(<<>>, "unparsable")>>}}
    \cup
    {Input("linux", <<"x">>, <<"x">>, DefaultFiles, data, "add", "app",
           <<Defect(<<"b", "c", "dy">>, "missing")>>) :
        data \in ThroughChoices}
    \cup
    {Input("linux", <<"x">>, <<"x">>, DefaultFiles, data, "add", "app", <<>>) :
        data \in AsideChoices}
    \cup
    {[Input("linux", <<"x">>, <<"x">>, DefaultFiles, BrewData(FALSE, FALSE), "brew", "app", <<>>)
         EXCEPT !.script = <<Teapot("add", data)>> \o Brewed] :
        data \in AsideChoices}

\* the inputs of the arms of fn main whose variants cli.rs does not declare:
\* sip, and fmt and lint with and without a defect
MatchedInputs ==
    {Input("linux", <<"x">>, <<"x">>, DefaultFiles, BrewData(FALSE, FALSE), "sip", "app", <<>>)}
    \cup
    {Input(h, <<"x">>, <<"x">>, DefaultFiles, BrewData(FALSE, FALSE), c, "app", defect) :
        h \in {"linux", "windows"}, c \in {"fmt", "lint"},
        defect \in {<<>>, <<Defect(<<>>, "missing")>>, <<Defect(<<>>, "undeclared")>>,
                    <<Defect(<<"b">>, "missing")>>}}

\* the declarations that lead back to a directory being resolved: b names
\* its own directory, c names its parent under feature y, lx names the root
Cycles == {"none", "self", "back", "root"}

\* the declarations whose path goes through a directory that is no package
\* directory: b names its own directory through its include directory, the
\* root names its own through a target directory that is there, lx
\* names b/c/d0 through its include directory, lx names its own directory
\* through a target directory it does not have
Detours == {"include", "target", "aside", "gone"}

\* the package directories with such a declaration added to a manifest that
\* is there
WithCycle(fsys, cycle) ==
    LET usable(dir) == dir \in DOMAIN fsys /\ fsys[dir].manifest # <<>>
    IN CASE cycle = "self" /\ usable(<<"b">>) ->
              [fsys EXCEPT ![<<"b">>].manifest[1].dependencies.base =
                  Append(@, Dependency("b", <<>>, <<>>))]
         [] cycle = "back" /\ usable(<<"b", "c">>) ->
              [fsys EXCEPT ![<<"b", "c">>].manifest[1].dependencies.tables =
                  [i \in DOMAIN @ |->
                      IF @[i].name = "y"
                      THEN Table("y", Append(@[i].entries, Dependency("b", <<"..">>, <<>>)))
                      ELSE @[i]]]
         [] cycle = "root" /\ usable(<<"lx">>) ->
              [fsys EXCEPT ![<<"lx">>].manifest[1].dependencies.base =
                  <<Dependency("app", <<"..">>, <<>>)>>]
         [] cycle = "include" /\ usable(<<"b">>) ->
              [fsys EXCEPT ![<<"b">>].manifest[1].dependencies.base =
                  Append(@, Dependency("b", <<"include", "..">>, <<>>))]
         [] cycle = "target" /\ usable(<<>>) ->
              [WithTarget(fsys) EXCEPT ![<<>>].manifest[1].dependencies.base =
                  Append(@, Dependency("app", <<"target", "..">>, <<>>))]
         [] cycle = "aside" /\ usable(<<"lx">>) ->
              [fsys EXCEPT ![<<"lx">>].manifest[1].dependencies.base =
                  <<Dependency("d0", <<"include", "..", "..", "b", "c", "d0">>, <<>>)>>]
         [] cycle = "gone" /\ usable(<<"lx">>) ->
              [fsys EXCEPT ![<<"lx">>].manifest[1].dependencies.base =
                  <<Dependency("lx", <<"target", "..">>, <<>>)>>]
         [] OTHER -> fsys

Manifests(h, d, r, defect, cycle) ==
    [host |-> h, decl |-> d, req |-> r, defect |-> defect, cycle |-> cycle]

\* what b asks of c where the resolution is explored step by step
RequestChoices == {<<>>, <<"x">>, <<"y">>, <<"x", "y">>, <<"y", "y">>}

\* the manifest trees whose resolution is explored step by step: every
\* declared list of c under these requests with every cycle (on windows,
\* where lx is not declared, with x and y declared), and every defect with
\* and without a cycle that is declared after it
ManifestInputs ==
    {Manifests("linux", d, r, <<>>, cycle) :
        d \in FeatureLists, r \in RequestChoices, cycle \in Cycles}
    \cup
    {Manifests("windows", <<"x", "y">>, r, <<>>, cycle) :
        r \in RequestChoices, cycle \in Cycles}
    \cup
    {Manifests(h, <<"x", "y">>, r, defect, cycle) :
        h \in {"linux", "windows"}, r \in {<<>>, <<"y">>},
        defect \in DefectChoices, cycle \in {"none", "root"}}
    \cup
    {Manifests("linux", <<"x", "y">>, r, <<>>, cycle) :
        r \in {<<>>, <<"x">>, <<"x", "y">>}, cycle \in Detours}

----------------------------------------------------------------------------
(* main.rs: resolution *)

\* the directories of a file system: the package directories and the
\* directories below each
IsDirectory(fsys, dir) ==
    \/ dir \in DOMAIN fsys
    \/ \E d \in DOMAIN fsys : \E below \in fsys[d].dirs : dir = d \o below

\* the directory a path names when the file system opens it (Path::join keeps
\* every component, the lookup resolves them): a component . stays in the
\* directory; a component .. leaves the directory entered last if what the
\* path names up to there is a directory, else the lookup fails and the path
\* names nothing; above the directory the process runs in .. names a parent,
\* which is no directory of the project
RECURSIVE Canon(_, _, _)
Canon(fsys, rest, acc) ==
    IF rest = <<>> THEN acc
    ELSE IF Head(rest) = "." THEN Canon(fsys, Tail(rest), acc)
    ELSE IF /\ Head(rest) = ".."
            /\ acc # <<>> /\ acc[Len(acc)] # ".."
            /\ IsDirectory(fsys, acc)
         THEN Canon(fsys, Tail(rest), SubSeq(acc, 1, Len(acc) - 1))
         ELSE Canon(fsys, Tail(rest), Append(acc, Head(rest)))

Canonical(path) == Canon(fs, path, <<>>)

\* TeaConfig::parse finds tea.toml in the directory, reads a document, does
\* not panic in a section parser and returns Some
Loads(path) ==
    /\ Canonical(path) \in DOMAIN fs
    /\ fs[Canonical(path)].tea_toml
    /\ fs[Canonical(path)].manifest # <<>>
    /\ ~ParsePanics(fs[Canonical(path)].manifest[1])

\* load_config -> TeaConfig::parse: the manifest of the directory, parsed
load_config(path) == Parse(fs[Canonical(path)].manifest[1])

add_default_features(features) == features \o <<host>>

\* mutant: the Features are built from the declared names alone
ResolveDeclaredOnly(config, enabled_features) ==
    LET all_features == config.package.features
    IN [i \in 1..Len(all_features) |->
          [name |-> all_features[i],
           enabled |-> Contains(enabled_features, all_features[i])]]

\* Leaf::from_config, the Feature records
ResolveFeatures(config, enabled_features) ==
    LET all_features == BASE_FEATURES \o config.package.features
    IN [i \in 1..Len(all_features) |->
          [name |-> all_features[i],
           enabled |-> Contains(enabled_features, all_features[i])]]

\* the dependency lists of the names of enabled_features, name by name
RECURSIVE RequestedLists(_, _)
RequestedLists(table, enabled_features) ==
    IF enabled_features = <<>> THEN <<>>
    ELSE LET deps == Get(table, Head(enabled_features))
         IN (IF deps # <<>> THEN deps[1] ELSE <<>>)
            \o RequestedLists(table, Tail(enabled_features))

\* Leaf::from_config, the dependency declarations in effect
FlattenDependencies(config, enabled_features) ==
    config.dependencies.base
    \o RequestedLists(config.dependencies.features, enabled_features)

\* the per-feature lists of the enabled Features, in the order of features
RECURSIVE EnabledLists(_, _)
EnabledLists(table, features) ==
    IF features = <<>> THEN <<>>
    ELSE LET found == Get(table, Head(features).name)
         IN (IF Head(features).enabled /\ found # <<>> THEN found[1] ELSE <<>>)
            \o EnabledLists(table, Tail(features))

\* mutant: the per-feature defines of every Feature, enabled or not
UngatedDefines(config, features) ==
    config.defines.base
    \o EnabledLists(config.defines.features,
                    [i \in 1..Len(features) |-> [features[i] EXCEPT !.enabled = TRUE]])

\* Leaf::from_config, the defines
FlattenDefines(config, features) ==
    config.defines.base \o EnabledLists(config.defines.features, features)

\* Leaf::from_config, the system libraries
FlattenLibraries(config, features) ==
    config.libraries.base \o EnabledLists(config.libraries.features, features)

\* mutant: the host name is not added to the features of a declaration
DeclaredFeaturesOnly(dependency) == dependency.features

\* what a dependency declaration asks of the Leaf it creates
ChildFeatures(dependency) == add_default_features(dependency.features)

\* Leaf::from_config returns: every dependency declaration in effect has a
\* path, the manifest at that path loads and the Leaf below it resolves
RECURSIVE CanResolve(_, _, _)
CanResolve(config, enabled_features, path) ==
    LET dependencies == FlattenDependencies(config, enabled_features)
    IN \A i \in 1..Len(dependencies) :
          /\ dependencies[i].path # <<>>
          /\ Loads(path \o dependencies[i].path[1])
          /\ CanResolve(load_config(path \o dependencies[i].path[1]),
                        ChildFeatures(dependencies[i]),
                        path \o dependencies[i].path[1])

RECURSIVE from_config(_, _, _)
from_config(config, enabled_features, path) ==
    LET features == ResolveFeatures(config, enabled_features)
        dependencies == FlattenDependencies(config, enabled_features)
    IN [config |-> config,
        dependencies |->
            [i \in 1..Len(dependencies) |->
                from_config(load_config(path \o dependencies[i].path[1]),
                            ChildFeatures(dependencies[i]),
                            path \o dependencies[i].path[1])],
        features |-> features,
        path |-> path,
        defines |-> FlattenDefines(config, features),
        libraries |-> FlattenLibraries(config, features)]

\* mutant: the names of the Leaf and of its direct dependencies only
DirectDependencies(self) ==
    <<self.config.package.name>>
    \o [i \in 1..Len(self.dependencies) |-> self.dependencies[i].config.package.name]

\* Leaf::get_dependencies
RECURSIVE get_dependencies(_)
get_dependencies(self) ==
    <<self.config.package.name>>
    \o Flatten([i \in 1..Len(self.dependencies) |-> get_dependencies(self.dependencies[i])])

----------------------------------------------------------------------------
(* compiler.rs: the Compiler engine *)

Flag(flag, arg) == [flag |-> flag, arg |-> arg]

\* Compiler::new
NewCompiler(target_directory) ==
    [target_directory |-> target_directory,
     compile_flags |-> <<>>,
     link_flags |-> <<Flag("-l", <<"m">>)>>,
     defines |-> <<>>,
     objects |-> <<>>]

\* Compiler::include
include(c, path) ==
    [c EXCEPT !.compile_flags = Append(@, Flag("-I", path))]

\* the file name lib<name>.a
LibFile(name) == <<"lib", name, "a">>

\* mutant: an archive is put in front of the artifact list
PrependStaticLibrary(c, name) ==
    [c EXCEPT !.objects = <<[dir |-> c.target_directory, file |-> LibFile(name)]>> \o @]

\* Compiler::add_static_library
add_static_library(c, name) ==
    [c EXCEPT !.objects = Append(@, [dir |-> c.target_directory, file |-> LibFile(name)])]

\* Compiler::add_system_library
add_system_library(c, name) ==
    [c EXCEPT !.link_flags = Append(@, Flag("-l", <<name>>))]

\* Compiler::define
define(c, name, value) ==
    [c EXCEPT !.defines = Append(@, [name |-> name, value |-> value])]

\* Compiler::set_optimization_level
set_optimization_level(c, level) ==
    [c EXCEPT !.compile_flags = Append(@, Flag("-O", <<level>>))]

\* Compiler::enable_debug_info
enable_debug_info(c) ==
    [c EXCEPT !.compile_flags = Append(@, Flag("-g", <<>>))]

\* Path::extension of a file name
Extension(file) ==
    IF Len(file) < 2 \/ (Len(file) = 2 /\ file[1] = "") THEN <<>>
    ELSE <<file[Len(file)]>>

\* Path::file_stem of a file name
FileStem(file) ==
    IF Extension(file) = <<>> THEN file ELSE SubSeq(file, 1, Len(file) - 1)

\* Path::with_extension: the name up to its extension, then set_extension;
\* the name ..c is cut to the component .. (no file name), which
\* set_extension leaves as it is
WithExtension(path, ext) ==
    IF Len(path.file) = 3 /\ path.file[1] = "" /\ path.file[2] = ""
    THEN [path EXCEPT !.file = <<"", "", "">>]
    ELSE [path EXCEPT !.file = FileStem(path.file) \o <<ext>>]

\* Compiler::compile, the object a source is compiled to
ObjectOf(c, path) ==
    LET o == WithExtension(path, "o")
    IN [dir |-> c.target_directory \o <<"objects">> \o o.dir, file |-> o.file]

\* Compiler::compile, the directories of the objects of the paths taken up
RECURSIVE CreateObjectDirs(_, _, _)
CreateObjectDirs(fsys, c, paths) ==
    IF paths = <<>> THEN fsys
    ELSE CreateObjectDirs(create_dir_all(fsys, ObjectOf(c, Head(paths)).dir), c, Tail(paths))

\* mutant: the objects are pushed at the end of the artifact list
PushObjects(c, objects, paths) ==
    objects \o [i \in 1..Len(paths) |-> ObjectOf(c, paths[i])]

\* Compiler::compile, the objects put in front of the artifact list one by one
RECURSIVE InsertObjects(_, _, _)
InsertObjects(c, objects, paths) ==
    IF paths = <<>> THEN objects
    ELSE InsertObjects(c, <<ObjectOf(c, Head(paths))>> \o objects, Tail(paths))

\* mutant: the increment reads the counter before another worker's write
LostUpdate(p) == IF p = 0 THEN 1 ELSE p

\* AtomicUsize::fetch_add(1, SeqCst), the value stored
fetch_add(p) == p + 1

\* the outcomes of starting an external tool and waiting for it
ToolResults == {"ok", "exit_nonzero", "spawn_error"}

\* mutant: the exit status of tcc is not looked at
PanicsOnSpawnErrorOnly(u) == \E i \in DOMAIN u : u[i] = "spawn_error"

\* Compiler::compile, whether the parallel for_each panics
CompilePanics(u) == \E i \in DOMAIN u : u[i] \in ToolResults \ {"ok"}

\* Compiler::link, the artifact the archiver or the linker writes
ArtifactPath(c, name, output) ==
    [dir |-> c.target_directory,
     file |-> IF output = "Binary" THEN <<name>> ELSE LibFile(name)]

----------------------------------------------------------------------------
(* main.rs: the build of a Leaf tree *)

\* the Leaf at an index path of the tree (<<>> is the root)
RECURSIVE LeafIn(_, _)
LeafIn(l, at) == IF at = <<>> THEN l ELSE LeafIn(l.dependencies[Head(at)], Tail(at))

LeafAt(at) == LeafIn(leaf[1], at)

\* the index paths of a Leaf and of the Leaves below it
RECURSIVE Below(_, _)
Below(l, at) ==
    {at} \cup UNION {Below(l.dependencies[i], at \o <<i>>) : i \in 1..Len(l.dependencies)}

\* Leaf::compile, the walk of the src directory: the directory itself comes
\* first, then what it holds; entries that cannot be read are dropped
WalkDir(self) ==
    LET dir == self.path \o <<"src">>
        entries == fs[Canonical(self.path)].src
    IN IF ~IsDirectory(fs, Canonical(dir)) THEN <<>>
       ELSE <<[dir |-> self.path, file |-> <<"src">>]>>
            \o [i \in 1..Len(entries) |-> [dir |-> dir, file |-> entries[i]]]

\* Leaf::compile, the first filter: the extension is c
IsCSource(path) == Extension(path.file) = <<"c">>

\* mutant: a source is kept only if its last stem segment names an enabled
\* Feature
SelectedOnlyIfEnabled(features, path) ==
    LET stem == FileStem(path.file)
    IN \E i \in 1..Len(features) :
          features[i].name = stem[Len(stem)] /\ features[i].enabled

\* Leaf::compile, the second filter: the last segment of the file stem names
\* no Feature, or it names an enabled one
SourceSelected(features, path) ==
    LET stem == FileStem(path.file)
        feature_name == stem[Len(stem)]
        found == {i \in 1..Len(features) : features[i].name = feature_name}
    IN found = {} \/ features[CHOOSE i \in found : \A j \in found : i <= j].enabled

RECURSIVE Filter(_, _)
Filter(paths, keep) ==
    IF paths = <<>> THEN <<>>
    ELSE (IF Head(paths) \in keep THEN <<Head(paths)>> ELSE <<>>) \o Filter(Tail(paths), keep)

\* Leaf::compile, the sources handed to the Compiler
SelectSources(self) ==
    LET walked == WalkDir(self)
    IN Filter(walked, {p \in Range(walked) : IsCSource(p) /\ SourceSelected(self.features, p)})

\* str::to_uppercase of the feature names in use
ToUppercase(name) ==
    CASE name = "x" -> "X" [] name = "y" -> "Y" [] name = "linux" -> "LINUX"
      [] name = "windows" -> "WINDOWS" [] OTHER -> name

\* the release and debug switches of BrewData
ProfileFlags(c, data) ==
    LET c1 == IF data.release THEN set_optimization_level(c, "3") ELSE c
    IN IF data.debug THEN enable_debug_info(c1) ELSE c1

RECURSIVE DefineFeatures(_, _)
DefineFeatures(c, features) ==
    IF features = <<>> THEN c
    ELSE DefineFeatures(
            IF Head(features).enabled
            THEN define(c, <<"FEATURE_", ToUppercase(Head(features).name)>>, <<>>)
            ELSE c,
            Tail(features))

\* Leaf::compile, the include directories of the dependencies
RECURSIVE IncludeDependencies(_, _)
IncludeDependencies(c, dependencies) ==
    IF dependencies = <<>> THEN c
    ELSE IncludeDependencies(include(c, Head(dependencies).path \o <<"include">>),
                             Tail(dependencies))

RECURSIVE DefineAll(_, _)
DefineAll(c, defines) ==
    IF defines = <<>> THEN c
    ELSE DefineAll(define(c, <<Head(defines).name>>, Head(defines).value), Tail(defines))

\* mutant: the Compiler of a Leaf is handed the archives of its dependencies
ConfigureWithDependencyArchives(self, data) ==
    LET c0 == [NewCompiler(<<"target">>) EXCEPT
                 !.objects = [i \in 1..Len(self.dependencies) |->
                                [dir |-> <<"target">>,
                                 file |-> LibFile(self.dependencies[i].config.package.name)]]]
        c1 == include(c0, self.path \o <<"include">>)
        c2 == include(c1, self.path \o <<"src">>)
        c3 == ProfileFlags(c2, data)
        c4 == DefineFeatures(c3, self.features)
        c5 == IncludeDependencies(c4, self.dependencies)
    IN DefineAll(c5, self.defines)

\* Leaf::compile, the Compiler as configured before Compiler::compile
ConfigureCompiler(self, data) ==
    LET c0 == NewCompiler(<<"target">>)
        c1 == include(c0, self.path \o <<"include">>)
        c2 == include(c1, self.path \o <<"src">>)
        c3 == ProfileFlags(c2, data)
        c4 == DefineFeatures(c3, self.features)
        c5 == IncludeDependencies(c4, self.dependencies)
    IN DefineAll(c5, self.defines)

RECURSIVE AddStaticLibraries(_, _)
AddStaticLibraries(c, names) ==
    IF names = <<>> THEN c
    ELSE AddStaticLibraries(add_static_library(c, Head(names)), Tail(names))

RECURSIVE AddSystemLibraries(_, _)
AddSystemLibraries(c, libraries) ==
    IF libraries = <<>> THEN c
    ELSE AddSystemLibraries(add_system_library(c, Head(libraries)), Tail(libraries))

\* Leaf::link, the Compiler as it stands when the Binary link is issued
LinkInputs(self, c) ==
    AddSystemLibraries(AddStaticLibraries(c, get_dependencies(self)), self.libraries)

\* mutant: main calls <name>_main twice
EntryShimTwice(name) ==
    [declares |-> <<<<name, "_main">>>>, calls |-> <<<<name, "_main">>, <<name, "_main">>>>]

\* brew, pour, the generated translation unit: main calls <name>_main
EntryShim(name) == [declares |-> <<<<name, "_main">>>>, calls |-> <<<<name, "_main">>>>]

MainC == [dir |-> <<"target">>, file |-> <<"main", "c">>]

\* the lines nm can print: test_a, test_b, atest_, test, app_main
SymbolPool ==
    {<<"test_", "a">>, <<"test_", "b">>, <<"a", "test_">>, <<"test">>, <<"app", "_main">>}

SymbolLists == SeqsUpTo(SymbolPool, MaxSymbols)

\* str::starts_with("test_")
StartsWithTest(symbol) == Len(symbol) >= 1 /\ symbol[1] = "test_"

\* mutant: every line of nm is taken for a test
EveryLine(lines) == lines

\* sip, the tests: the lines of nm that start with test_
FilterTests(lines) == Filter(lines, {l \in Range(lines) : StartsWithTest(l)})

\* a statement of a generated main: a call of a function with arguments
Statement(callee, args) == [callee |-> callee, args |-> args]

\* sip, the generated translation unit: stdio.h, a forward declaration per
\* test, and a main that for each test calls printf and then the test
TestRunner(tests) ==
    [include |-> <<"stdio", "h">>,
     declares |-> tests,
     body |-> Flatten([i \in 1..Len(tests) |->
                         <<Statement(<<"printf">>, <<"Testing ", tests[i], "\\n">>),
                           Statement(tests[i], <<>>)>>])]

Frame(at, next) == [at |-> at, next |-> next]

Top == stack[Len(stack)]

\* mutant: the loop over self.dependencies ends after the first dependency
FirstDependencyOnly(frame) ==
    frame.next > 1 \/ LeafAt(frame.at).dependencies = <<>>

\* mutant: the sources of a Leaf are compiled without its dependencies
SourcesBeforeDependencies(frame) == frame.next >= 1

\* Leaf::compile, the loop over self.dependencies has ended
ChildrenDone(frame) == frame.next > Len(LeafAt(frame.at).dependencies)

\* one call of Compiler::compile (cc) or Compiler::link (ar, ld) made for the
\* Leaf at an index path by Leaf::compile or by Leaf::link
Invocation(tool, by, at, args, out, result) ==
    [tool |-> tool, by |-> by, at |-> at, args |-> args, out |-> out,
     result |-> result]

----------------------------------------------------------------------------
(* main.rs: new, add, fmt, lint *)

\* fn new, the manifest written: a package table and an empty dependencies
\* table
NewDocument(name) ==
    Document(name, <<>>, Section(<<>>, <<>>), Section(<<>>, <<>>), Section(<<>>, <<>>))

\* fn new, the source written: src/<name>.c for --lib, src/main.c for --bin
NewSource(data) == IF data.lib THEN <<data.name, "c">> ELSE <<"main", "c">>

\* what src of the package directory holds before fn new writes
Held(fsys, data) ==
    IF <<data.name>> \in DOMAIN fsys THEN fsys[<<data.name>>].src ELSE <<>>

\* fn new, the package directory after create_dir_all and the writes: the
\* manifest is replaced, src is there (and include for --lib) beside the
\* directories that were, the source is added to what src holds. Where a walk
\* of src then yields the new entry is up to the file system: after the
\* first at entries that were there
NewDir(fsys, data, at) ==
    LET held == Held(fsys, data)
        there == IF <<data.name>> \in DOMAIN fsys THEN fsys[<<data.name>>].dirs ELSE {}
    IN Dir(<<NewDocument(data.name)>>,
           IF Contains(held, NewSource(data)) THEN held
           ELSE SubSeq(held, 1, at) \o <<NewSource(data)>>
                \o SubSeq(held, at + 1, Len(held)),
           there \cup (IF data.lib THEN Library ELSE Program))

\* str::split(","): the pieces between the commas, an empty piece where
\* nothing stands between two of them, before the first or after the last
RECURSIVE SplitFrom(_, _, _)
SplitFrom(rest, piece, pieces) ==
    IF rest = <<>> THEN Append(pieces, piece)
    ELSE IF Head(rest) = "," THEN SplitFrom(Tail(rest), <<>>, Append(pieces, piece))
         ELSE SplitFrom(Tail(rest), Append(piece, Head(rest)), pieces)

\* a piece as a feature name: the empty piece is the name ""
PieceName(piece) ==
    IF piece = <<>> THEN "" ELSE IF Len(piece) = 1 THEN piece[1] ELSE piece

Split(text) ==
    LET pieces == SplitFrom(text, <<>>, <<>>)
    IN [i \in 1..Len(pieces) |-> PieceName(pieces[i])]

\* fn add, the inline table written: features.unwrap_or_else(String::new)
\* split at the commas
AddedDependency(data) ==
    Dependency(data.name, data.path,
               Split(IF data.features = <<>> THEN <<>> ELSE data.features[1]))

\* fn add, config["dependencies"][name] = ...: the entry of that name is
\* replaced where it stands; a sub-table of that name gives way to the
\* entry; a new name is added after the entries
InsertDependency(section, dependency) ==
    LET at == {i \in 1..Len(section.base) : section.base[i].name = dependency.name}
        others == {i \in 1..Len(section.tables) : section.tables[i].name # dependency.name}
    IN IF at # {}
       THEN [section EXCEPT !.base[CHOOSE i \in at : TRUE] = dependency]
       ELSE Section(Append(section.base, dependency),
                    Pick(section.tables, {section.tables[i] : i \in others}))

\* get_sources: the entries of a walk whose extension is c
get_sources(dir) ==
    LET entries == IF <<>> \in DOMAIN fs THEN fs[<<>>].src ELSE <<>>
        walked == <<[dir |-> SubSeq(dir, 1, Len(dir) - 1), file |-> <<dir[Len(dir)]>>]>>
                  \o [i \in 1..Len(entries) |-> [dir |-> dir, file |-> entries[i]]]
    IN IF ~IsDirectory(fs, Canonical(dir)) THEN <<>>
       ELSE Filter(walked, {p \in Range(walked) : IsCSource(p)})

\* fn fmt, the arguments of clang-format
FormatArgs(paths) == <<Flag("-i", <<>>)>> \o paths

\* fn lint, the arguments of clang-tidy: the sources, --, the include
\* directories of the package and of its direct dependencies, the defines of
\* its enabled features and its defines
LintArgs(self, paths) ==
    LET c0 == NewCompiler(<<"target">>)
        c1 == include(c0, <<"src">>)
        c2 == include(c1, <<"include">>)
        c3 == IncludeDependencies(c2, self.dependencies)
        c4 == DefineFeatures(c3, self.features)
        c5 == DefineAll(c4, self.defines)
    IN paths \o <<Flag("--", <<>>)>> \o c5.compile_flags \o c5.defines

----------------------------------------------------------------------------
\* a process of teapot at the start of fn main, Cli::parse done
Started(in) ==
    /\ host = in.host
    /\ queue = in.script
    /\ fs = FileSystem(in.root, in.decl, in.req, in.files, in.defect)
    /\ command = in.command
    /\ cmd = in.cmd
    /\ pc = "start"
    /\ leaf = <<>>
    /\ stack = <<>>
    /\ phase = "none"
    /\ compiler = <<>>
    /\ sources = <<>>
    /\ units = <<>>
    /\ progress = 0
    /\ symbols = <<>>
    /\ main_c = <<>>
    /\ log = <<>>

\* Cli::parse accepts the subcommands that cli.rs declares
Init == \E in \in Inputs : in.command \in Subcommands /\ Started(in)

\* the process in an arm of fn main that no subcommand of cli.rs leads to
InitMatched == \E in \in MatchedInputs : in.command \in MatchedOnly /\ Started(in)

\* mutant: the manifests are loaded while the tree is compiled, the root's
\* sources first
ResolveWhileCompiling ==
    /\ pc = "start" /\ command \in Builds
    /\ IF Loads(<<>>) /\ CanResolve(load_config(<<>>), add_default_features(<<>>), <<>>)
       THEN /\ leaf' = <<from_config(load_config(<<>>), add_default_features(<<>>), <<>>)>>
            /\ pc' = "compile"
            /\ stack' = <<Frame(<<>>, 1)>>
            /\ phase' = "deps"
            /\ UNCHANGED log
       ELSE /\ pc' = "failed"
            /\ log' = IF Loads(<<>>)
                      THEN Append(log, Invocation("cc", "compile", <<>>, <<>>, <<>>, "called"))
                      ELSE log
            /\ UNCHANGED <<leaf, stack, phase>>
    /\ UNCHANGED <<host, queue, fs, command, cmd, compiler, sources, units, progress,
                   symbols, main_c>>

\* brew, pour, sip: load the root manifest and resolve the tree, then enter
\* leaf.compile; a manifest that does not load or a declaration without a
\* path ends the process
Resolve ==
    /\ pc = "start" /\ command \in Builds
    /\ IF Loads(<<>>) /\ CanResolve(load_config(<<>>), add_default_features(<<>>), <<>>)
       THEN /\ leaf' = <<from_config(load_config(<<>>), add_default_features(<<>>), <<>>)>>
            /\ pc' = "compile"
            /\ stack' = <<Frame(<<>>, 1)>>
            /\ phase' = "deps"
       ELSE /\ pc' = "failed"
            /\ UNCHANGED <<leaf, stack, phase>>
    /\ UNCHANGED <<host, queue, fs, command, cmd, compiler, sources, units, progress,
                   symbols, main_c, log>>

\* new: --lib and --bin both set or both unset panics; else the package
\* directory is created with its manifest and its first source
New ==
    /\ pc = "start" /\ command = "new"
    /\ IF cmd.lib = cmd.bin
       THEN /\ pc' = "failed"
            /\ UNCHANGED fs
       ELSE /\ \E at \in 0..Len(Held(fs, cmd)) :
                    fs' = [d \in DOMAIN fs \cup {<<cmd.name>>} |->
                             IF d = <<cmd.name>> THEN NewDir(fs, cmd, at) ELSE fs[d]]
            /\ pc' = "done"
    /\ UNCHANGED <<host, queue, command, cmd, leaf, stack, phase, compiler, sources, units,
                   progress, symbols, main_c, log>>

\* add: tea.toml of the directory is read as a document (not parsed into a
\* TeaConfig), the dependency is written into [dependencies] and the document
\* is written back; no tea.toml, or one that is no document, ends the process
Add ==
    /\ pc = "start" /\ command = "add"
    /\ IF <<>> \in DOMAIN fs /\ fs[<<>>].tea_toml /\ fs[<<>>].manifest # <<>>
       THEN /\ fs' = [fs EXCEPT ![<<>>].manifest[1].dependencies =
                        InsertDependency(@, AddedDependency(cmd))]
            /\ pc' = "done"
       ELSE /\ pc' = "failed"
            /\ UNCHANGED fs
    /\ UNCHANGED <<host, queue, command, cmd, leaf, stack, phase, compiler, sources, units,
                   progress, symbols, main_c, log>>

\* fmt: load_config of the directory, then clang-format -i on the c files of
\* src; run().unwrap() panics unless the tool exits with 0
Fmt ==
    /\ pc = "start" /\ command = "fmt"
    /\ IF Loads(<<>>)
       THEN \E result \in ToolResults :
               /\ log' = Append(log, Invocation("clang-format", "fmt", <<>>,
                                    FormatArgs(get_sources(<<"src">>)), <<>>, result))
               /\ pc' = IF result = "ok" THEN "done" ELSE "failed"
       ELSE /\ pc' = "failed"
            /\ UNCHANGED log
    /\ UNCHANGED <<host, queue, fs, command, cmd, leaf, stack, phase, compiler, sources, units,
                   progress, symbols, main_c>>

\* lint: load_config and Leaf::from_config as in a build, then clang-tidy on
\* the c files of src with the flags of the root Leaf
Lint ==
    /\ pc = "start" /\ command = "lint"
    /\ IF Loads(<<>>) /\ CanResolve(load_config(<<>>), add_default_features(<<>>), <<>>)
       THEN \E result \in ToolResults :
               LET root == from_config(load_config(<<>>), add_default_features(<<>>), <<>>)
               IN /\ leaf' = <<root>>
                  /\ log' = Append(log, Invocation("clang-tidy", "lint", <<>>,
                                       LintArgs(root, get_sources(<<"src">>)), <<>>, result))
                  /\ pc' = IF result = "ok" THEN "done" ELSE "failed"
       ELSE /\ pc' = "failed"
            /\ UNCHANGED <<leaf, log>>
    /\ UNCHANGED <<host, queue, fs, command, cmd, stack, phase, compiler, sources, units,
                   progress, symbols, main_c>>

\* the process has ended; the next invocation of teapot is started in the
\* same directory: what the files hold stays, what the process held is gone
NextProcess ==
    /\ pc = "done" /\ queue # <<>>
    /\ command' = Head(queue).command
    /\ cmd' = Head(queue).cmd
    /\ queue' = Tail(queue)
    /\ pc' = "start"
    /\ leaf' = <<>>
    /\ stack' = <<>>
    /\ phase' = "none"
    /\ compiler' = <<>>
    /\ sources' = <<>>
    /\ units' = <<>>
    /\ progress' = 0
    /\ symbols' = <<>>
    /\ log' = <<>>
    /\ UNCHANGED <<host, fs, main_c>>

\* Leaf::compile: the next dependency.compile(cmd.clone())
Descend ==
    /\ pc = "compile" /\ phase = "deps"
    /\ ~ChildrenDone(Top)
    /\ stack' = [stack EXCEPT ![Len(stack)].next = @ + 1]
                  \o <<Frame(Top.at \o <<Top.next>>, 1)>>
    /\ UNCHANGED <<host, queue, fs, command, cmd, symbols, pc, leaf, phase, compiler, sources, units,
                   progress, main_c, log>>

\* Leaf::compile: select the sources, configure a new Compiler, call
\* Compiler::compile
Prepare ==
    /\ pc = "compile" /\ phase = "deps"
    /\ ChildrenDone(Top)
    /\ LET self == LeafAt(Top.at)
           paths == SelectSources(self)
       IN /\ sources' = paths
          /\ compiler' = <<ConfigureCompiler(self, cmd)>>
          /\ units' = [i \in 1..Len(paths) |-> "pending"]
          /\ log' = Append(log, Invocation("cc", "compile", Top.at, paths, <<>>, "called"))
    /\ progress' = 0
    /\ phase' = "units"
    /\ UNCHANGED <<host, queue, fs, command, cmd, symbols, pc, leaf, stack, main_c>>

\* Compiler::compile: a worker takes up one path of the parallel for_each,
\* creates the directory of its object and starts tcc
StartUnit ==
    /\ phase = "units"
    /\ \E i \in DOMAIN units :
        /\ units[i] = "pending"
        /\ units' = [units EXCEPT ![i] = "running"]
        /\ fs' = create_dir_all(fs, ObjectOf(compiler[1], sources[i]).dir)
    /\ UNCHANGED <<host, queue, command, cmd, symbols, pc, leaf, stack, phase, compiler, sources,
                   progress, main_c, log>>

\* Compiler::compile: the tcc of one path returns; on success fetch_add
FinishUnit ==
    /\ phase = "units"
    /\ \E i \in DOMAIN units, r \in ToolResults :
        /\ units[i] = "running"
        /\ units' = [units EXCEPT ![i] = r]
        /\ progress' = IF r = "ok" THEN fetch_add(progress) ELSE progress
    /\ UNCHANGED <<host, queue, fs, command, cmd, symbols, pc, leaf, stack, phase, compiler, sources,
                   main_c, log>>

\* Compiler::compile: the parallel for_each returns or panics. After a panic
\* of one closure the paths not yet taken up may be dropped.
Join ==
    /\ phase = "units"
    /\ \A i \in DOMAIN units : units[i] # "running"
    /\ CompilePanics(units) \/ \A i \in DOMAIN units : units[i] # "pending"
    /\ IF CompilePanics(units)
       THEN /\ pc' = "failed"
            /\ UNCHANGED <<phase, compiler>>
       ELSE /\ pc' = pc
            /\ phase' = IF pc = "compile" THEN "archive" ELSE "binary"
            /\ compiler' = <<[compiler[1] EXCEPT
                                !.objects = InsertObjects(compiler[1], @, sources)]>>
    /\ UNCHANGED <<host, queue, fs, command, cmd, symbols, leaf, stack, sources, units, progress, main_c, log>>

\* Leaf::compile: compiler.link(name, OutputType::Library), then return
Archive ==
    /\ pc = "compile" /\ phase = "archive"
    /\ \E r \in ToolResults :
        LET name == LeafAt(Top.at).config.package.name
        IN /\ log' = Append(log, Invocation("ar", "compile", Top.at, compiler[1].objects,
                                            ArtifactPath(compiler[1], name, "Library"), r))
           /\ IF r # "ok"
              THEN /\ pc' = "failed"
                   /\ UNCHANGED <<stack, phase>>
              ELSE /\ stack' = SubSeq(stack, 1, Len(stack) - 1)
                   /\ pc' = IF Len(stack) > 1 THEN "compile"
                            ELSE IF command = "sip" THEN "inspect" ELSE "write_main"
                   /\ phase' = IF Len(stack) = 1 THEN "none" ELSE "deps"
    /\ UNCHANGED <<host, queue, fs, command, cmd, symbols, leaf, compiler, sources, units, progress, main_c>>

\* sip: nm -f just-symbols target/lib<name>.a; read().unwrap() ends the
\* process unless nm ran and exited with 0
Inspect ==
    /\ pc = "inspect"
    /\ \E r \in ToolResults :
        /\ log' = Append(log, Invocation("nm", "sip", <<>>,
                     <<ArtifactPath(NewCompiler(<<"target">>),
                                    leaf[1].config.package.name, "Library")>>, <<>>, r))
        /\ IF r = "ok"
           THEN /\ \E lines \in SymbolLists : symbols' = lines
                /\ pc' = "write_main"
           ELSE /\ pc' = "failed"
                /\ UNCHANGED symbols
    /\ UNCHANGED <<host, queue, fs, command, cmd, leaf, stack, phase, compiler, sources,
                   units, progress, main_c>>

\* sip: write the test runner to target/main.c
WriteRunner ==
    /\ pc = "write_main" /\ command = "sip"
    /\ main_c' = <<TestRunner(FilterTests(symbols))>>
    /\ pc' = "link"
    /\ UNCHANGED <<host, queue, fs, command, cmd, symbols, leaf, stack, phase, compiler,
                   sources, units, progress, log>>

\* brew, pour: write target/main.c
WriteMain ==
    /\ pc = "write_main" /\ command \in {"brew", "pour"}
    /\ main_c' = <<EntryShim(leaf[1].config.package.name)>>
    /\ pc' = "link"
    /\ UNCHANGED <<host, queue, fs, command, cmd, symbols, leaf, stack, phase, compiler, sources, units,
                   progress, log>>

\* Leaf::link: a new Compiler, compile target/main.c
LinkCompile ==
    /\ pc = "link" /\ phase = "none"
    /\ compiler' = <<ProfileFlags(NewCompiler(<<"target">>), cmd)>>
    /\ sources' = <<MainC>>
    /\ units' = [i \in 1..1 |-> "pending"]
    /\ progress' = 0
    /\ phase' = "units"
    /\ log' = Append(log, Invocation("cc", "link", <<>>, <<MainC>>, <<>>, "called"))
    /\ UNCHANGED <<host, queue, fs, command, cmd, symbols, pc, leaf, stack, main_c>>

\* Leaf::link: add the archives and the system libraries, link the Binary
LinkBinary ==
    /\ pc = "link" /\ phase = "binary"
    /\ \E r \in ToolResults :
        LET c == LinkInputs(leaf[1], compiler[1])
        IN /\ compiler' = <<c>>
           /\ log' = Append(log, Invocation("ld", "link", <<>>, c.objects,
                        ArtifactPath(c, leaf[1].config.package.name, "Binary"), r))
           /\ pc' = IF r # "ok" THEN "failed"
                    ELSE IF command = "brew" THEN "done" ELSE "run"
    /\ UNCHANGED <<host, queue, fs, command, cmd, symbols, leaf, stack, phase, sources,
                   units, progress, main_c>>

\* pour, sip: run the Binary; run().unwrap() ends the process on a failure
Run ==
    /\ pc = "run"
    /\ \E r \in ToolResults :
        /\ log' = Append(log, Invocation("run", command, <<>>,
                     <<ArtifactPath(NewCompiler(<<"target">>),
                                    leaf[1].config.package.name, "Binary")>>, <<>>, r))
        /\ pc' = IF r = "ok" THEN "done" ELSE "failed"
    /\ UNCHANGED <<host, queue, fs, command, cmd, symbols, leaf, stack, phase, compiler,
                   sources, units, progress, main_c>>

\* the steps of new, add, brew and pour
Next ==
    \/ New
    \/ Add
    \/ NextProcess
    \/ Resolve
    \/ Descend
    \/ Prepare
    \/ StartUnit
    \/ FinishUnit
    \/ Join
    \/ Archive
    \/ WriteMain
    \/ LinkCompile
    \/ LinkBinary
    \/ Run

Spec == Init /\ [][Next]_vars

\* the steps of fmt, lint and sip
NextMatched ==
    \/ Fmt
    \/ Lint
    \/ Resolve
    \/ Descend
    \/ Prepare
    \/ StartUnit
    \/ FinishUnit
    \/ Join
    \/ Archive
    \/ Inspect
    \/ WriteRunner
    \/ LinkCompile
    \/ LinkBinary
    \/ Run

\* fn fmt, fn lint and fn sip as fn main would call them
SpecMatched == InitMatched /\ [][NextMatched]_vars

----------------------------------------------------------------------------
(* compiler.rs: one Compiler under any sequence of compile and               *)
(* add_static_library calls; log is the sequence of the calls made         *)

\* the source lists handed to compile
EngineSources ==
    LET a == [dir |-> <<"src">>, file |-> <<"a", "c">>]
        b == [dir |-> <<"src">>, file |-> <<"b", "x", "c">>]
        c == [dir |-> <<"b", "src">>, file |-> <<"a", "c">>]
    IN {<<>>, <<a>>, <<c>>, <<a, b>>, <<b, c, a>>}

\* the names handed to add_static_library
EngineLibraries == {"a", "b"}

Call(call, arg, result) == [call |-> call, arg |-> arg, result |-> result]

InitEngine ==
    /\ host = "linux"
    /\ queue = <<>>
    /\ fs = [d \in {<<>>} |-> [Dir(<<>>, <<>>, {}) EXCEPT !.tea_toml = FALSE]]
    /\ command = "engine"
    /\ cmd = BrewData(FALSE, FALSE)
    /\ pc = "engine"
    /\ leaf = <<>>
    /\ stack = <<>>
    /\ phase = "none"
    /\ compiler = <<NewCompiler(<<"target">>)>>
    /\ sources = <<>>
    /\ units = <<>>
    /\ progress = 0
    /\ symbols = <<>>
    /\ main_c = <<>>
    /\ log = <<>>

\* Compiler::compile of a source list: every tcc succeeds and the objects are
\* inserted, or one fails and the call panics
EngineCompile ==
    /\ pc = "engine" /\ Len(log) < MaxCalls
    /\ \E paths \in EngineSources, ok \in BOOLEAN :
        /\ ok \/ paths # <<>>
        /\ sources' = paths
        /\ log' = Append(log, Call("compile", paths, IF ok THEN "ok" ELSE "panic"))
        /\ IF ok
           THEN /\ compiler' = <<[compiler[1] EXCEPT
                                    !.objects = InsertObjects(compiler[1], @, paths)]>>
                /\ fs' = CreateObjectDirs(fs, compiler[1], paths)
                /\ pc' = pc
           ELSE /\ pc' = "failed"
                /\ \E taken \in (SUBSET Range(paths)) \ {{}} :
                      fs' = CreateObjectDirs(fs, compiler[1], Filter(paths, taken))
                /\ UNCHANGED compiler
    /\ UNCHANGED <<host, queue, command, cmd, symbols, leaf, stack, phase, units,
                   progress, main_c>>

\* Compiler::add_static_library
EngineAddStaticLibrary ==
    /\ pc = "engine" /\ Len(log) < MaxCalls
    /\ \E name \in EngineLibraries :
        /\ compiler' = <<add_static_library(compiler[1], name)>>
        /\ log' = Append(log, Call("add_static_library", name, "ok"))
    /\ UNCHANGED <<host, queue, fs, command, cmd, symbols, pc, leaf, stack, phase, sources,
                   units, progress, main_c>>

NextEngine ==
    \/ EngineCompile
    \/ EngineAddStaticLibrary

SpecEngine == InitEngine /\ [][NextEngine]_vars

----------------------------------------------------------------------------
(* Leaf::from_config call by call: a frame per call that has not returned *)

\* mutant: the manifest of a dependency is looked up in the directory of the
\* Leaf that declares it
ParentPath(path, dependency) == path

\* Leaf::from_config, path.join(dependency.path)
ChildPath(path, dependency) == path \o dependency.path[1]

\* a call of from_config: its arguments, the index of the declaration the
\* map closure is at and the Leaves collected so far
Activation(config, enabled_features, path) ==
    [config |-> config, enabled_features |-> enabled_features, path |-> path,
     next |-> 1, dependencies |-> <<>>]

\* Leaf::from_config, the Leaf a call returns
Returned(frame) ==
    LET features == ResolveFeatures(frame.config, frame.enabled_features)
    IN [config |-> frame.config,
        dependencies |-> frame.dependencies,
        features |-> features,
        path |-> frame.path,
        defines |-> FlattenDefines(frame.config, features),
        libraries |-> FlattenLibraries(frame.config, features)]

InitResolve ==
    /\ \E in \in ManifestInputs :
        /\ host = in.host
        /\ fs = WithCycle(FileSystem("app", in.decl, in.req, DefaultFiles, in.defect),
                          in.cycle)
    /\ queue = <<>>
    /\ command = "brew"
    /\ cmd = BrewData(FALSE, FALSE)
    /\ pc = "start"
    /\ leaf = <<>>
    /\ stack = <<>>
    /\ phase = "none"
    /\ compiler = <<>>
    /\ sources = <<>>
    /\ units = <<>>
    /\ progress = 0
    /\ symbols = <<>>
    /\ main_c = <<>>
    /\ log = <<>>

\* brew: load_config of the root directory, then the first call of
\* from_config; a manifest that does not load ends the process
LoadRoot ==
    /\ pc = "start"
    /\ IF Loads(<<>>)
       THEN /\ stack' = <<Activation(load_config(<<>>), add_default_features(<<>>), <<>>)>>
            /\ pc' = "resolving"
       ELSE /\ pc' = "failed"
            /\ UNCHANGED stack
    /\ UNCHANGED <<host, queue, fs, command, cmd, leaf, phase, compiler, sources, units,
                   progress, symbols, main_c, log>>

\* the next declaration in effect of the innermost call has a path and the
\* manifest at the joined path loads: from_config is called for it
Enters ==
    LET declared == FlattenDependencies(Top.config, Top.enabled_features)
    IN /\ Top.next <= Len(declared)
       /\ declared[Top.next].path # <<>>
       /\ Loads(ChildPath(Top.path, declared[Top.next]))

\* the map closure for the next declaration in effect: load the manifest at
\* the joined path and call from_config for it; a declaration without a path
\* or a manifest that does not load ends the process
EnterDependency ==
    /\ pc = "resolving"
    /\ Len(stack) < MaxDepth \/ ~Enters
    /\ LET declared == FlattenDependencies(Top.config, Top.enabled_features)
       IN /\ Top.next <= Len(declared)
          /\ LET dependency == declared[Top.next]
             IN IF /\ dependency.path # <<>>
                   /\ Loads(ChildPath(Top.path, dependency))
                THEN /\ stack' = Append(stack,
                                    Activation(load_config(ChildPath(Top.path, dependency)),
                                               ChildFeatures(dependency),
                                               ChildPath(Top.path, dependency)))
                     /\ UNCHANGED pc
                ELSE /\ pc' = "failed"
                     /\ UNCHANGED stack
    /\ UNCHANGED <<host, queue, fs, command, cmd, leaf, phase, compiler, sources, units,
                   progress, symbols, main_c, log>>

\* the calls nest no deeper than the process can hold, MaxDepth calls here:
\* one call more and the process ends, aborted where its stack is used up, or
\* left through the exit of TeaConfig::parse where the joined path has grown
\* longer than the system takes
Exhaust ==
    /\ pc = "resolving"
    /\ Len(stack) = MaxDepth
    /\ Enters
    /\ pc' = "failed"
    /\ UNCHANGED <<host, queue, fs, command, cmd, leaf, stack, phase, compiler, sources,
                   units, progress, symbols, main_c, log>>

\* a call whose declarations are all resolved returns its Leaf: to the
\* collect of the calling closure, or to brew
ReturnLeaf ==
    /\ pc = "resolving"
    /\ Top.next > Len(FlattenDependencies(Top.config, Top.enabled_features))
    /\ IF Len(stack) = 1
       THEN /\ leaf' = <<Returned(Top)>>
            /\ stack' = <<>>
            /\ pc' = "resolved"
       ELSE /\ stack' = [SubSeq(stack, 1, Len(stack) - 1) EXCEPT
                            ![Len(stack) - 1].next = @ + 1,
                            ![Len(stack) - 1].dependencies = Append(@, Returned(Top))]
            /\ UNCHANGED <<leaf, pc>>
    /\ UNCHANGED <<host, queue, fs, command, cmd, phase, compiler, sources, units,
                   progress, symbols, main_c, log>>

NextResolve == LoadRoot \/ EnterDependency \/ Exhaust \/ ReturnLeaf

\* the process runs on while a call has a step to take
SpecResolve == InitResolve /\ [][NextResolve]_vars /\ WF_vars(NextResolve)

----------------------------------------------------------------------------
(* What the properties speak about *)

\* every Leaf of a tree with its index path and the feature list of the
\* dependency declaration it was created for (<<>> for the root)
RECURSIVE NodesOf(_, _, _)
NodesOf(l, asked, at) ==
    LET declarations == FlattenDependencies(l.config, asked \o <<host>>)
    IN {[at |-> at, asked |-> asked, leaf |-> l]}
       \cup UNION {NodesOf(l.dependencies[i], declarations[i].features, at \o <<i>>) :
                     i \in 1..Len(l.dependencies)}

Nodes == IF leaf = <<>> THEN {} ELSE NodesOf(leaf[1], <<>>, <<>>)

Universe(l) == Range(BASE_FEATURES) \cup Range(l.config.package.features)

EnabledNames(l) == {l.features[i].name : i \in {j \in 1..Len(l.features) : l.features[j].enabled}}

\* an invocation of the archiver for the Leaf at an index path has succeeded
\* before position i of the log
ArchivedBefore(at, i) ==
    \E j \in 1..(i - 1) :
        log[j].tool = "ar" /\ log[j].at = at /\ log[j].result = "ok"

UnitFailed == \E i \in DOMAIN units : units[i] \in {"exit_nonzero", "spawn_error"}

\* the lists a per-feature table gives for the names of a universe that are
\* in a set, each name taken once, in the order of the universe
RECURSIVE ListsInOrder(_, _, _, _)
ListsInOrder(table, universe, names, i) ==
    IF i > Len(universe) THEN <<>>
    ELSE (IF /\ universe[i] \in names
             /\ universe[i] \in DOMAIN table
             /\ \A j \in 1..(i - 1) : universe[j] # universe[i]
          THEN table[universe[i]] ELSE <<>>)
         \o ListsInOrder(table, universe, names, i + 1)

\* the manifest of a directory cannot be used: tea.toml is not there, is no
\* document, writes under dependencies or defines a sub-table that no feature
\* of the package names, or writes an entry under the name of a feature
Unusable(dir) ==
    \/ dir \notin DOMAIN fs
    \/ fs[dir].manifest = <<>>
    \/ LET written == fs[dir].manifest[1]
           named == Range(BASE_FEATURES \o written.package.features)
       IN \/ \E t \in Range(written.dependencies.tables) \cup Range(written.defines.tables) :
                t.name \notin named
          \/ \E e \in Range(written.dependencies.base) \cup Range(written.defines.base) :
                e.name \in named
          \/ \E e \in Range(written.libraries.base) : e \in named

\* a directory the resolution comes to has an unusable manifest, or a manifest
\* it uses has a dependency without a path among the declarations in effect:
\* the walk follows the manifests on disk from a directory asked for a feature
\* list
RECURSIVE DefectReached(_, _)
DefectReached(dir, asked) ==
    \/ Unusable(Canonical(dir))
    \/ LET config == load_config(dir)
           declared == config.dependencies.base
                       \o ListsInOrder(config.dependencies.features,
                                       BASE_FEATURES \o config.package.features,
                                       Range(asked) \cup {host}, 1)
       IN \E k \in 1..Len(declared) :
             \/ declared[k].path = <<>>
             \/ DefectReached(dir \o declared[k].path[1], declared[k].features)

----------------------------------------------------------------------------
\* C1: when Compiler::compile is called for the sources of a Leaf, the archive
\* step of every Leaf below it has already succeeded, and when the Binary link
\* is issued the archive step of every Leaf of the tree has succeeded.
BuildOrdering ==
    \A i \in 1..Len(log) :
        /\ (log[i].tool = "cc" /\ log[i].by = "compile") =>
              \A d \in Below(LeafAt(log[i].at), log[i].at) \ {log[i].at} :
                  ArchivedBefore(d, i)
        /\ (log[i].by = "link") =>
              \A d \in Below(leaf[1], <<>>) : ArchivedBefore(d, i)

\* a build of a chain of three Leaves and more has linked its Binary
BuildOrderingWitness ==
    /\ pc = "done"
    /\ \E n \in Nodes : Len(n.at) >= 2
    /\ \E i \in 1..Len(log) : log[i].tool = "ld"

\* C2: once one parallel compilation of a Compiler::compile has failed, no
\* step issues a further toolchain invocation (no archive, no compile of
\* another Leaf, no Binary link), the build can only go on to its failure, and
\* it does not stop before it.
FailFast ==
    /\ [][UnitFailed => (log' = log /\ phase' = phase /\ stack' = stack
                         /\ pc' \in {pc, "failed"})]_vars
    /\ [](UnitFailed => (pc = "failed" \/ ENABLED (StartUnit \/ FinishUnit \/ Join)))

\* a Leaf below the root has failed with one source compiled and one failed
FailFastWitness ==
    /\ pc = "failed"
    /\ Len(stack) >= 2
    /\ \E i, j \in DOMAIN units : units[i] = "ok" /\ units[j] = "exit_nonzero"
    /\ \E i \in 1..Len(log) : log[i].tool = "ar"

\* C3 as stated: the enabled features of a Leaf below the root are the names
\* of its declaration's feature list and the host name that its own universe
\* has, and the host platform feature is enabled in every Leaf.
DependencyIsolationAndHostEnabled ==
    \A n \in Nodes :
        /\ n.at # <<>> =>
              EnabledNames(n.leaf) = (Range(n.asked) \cup {host}) \cap Universe(n.leaf)
        /\ host \in EnabledNames(n.leaf)

\* C3 amended: as above, but the host platform feature is enabled in every
\* Leaf whose universe has a feature of that name, which is every Leaf when
\* the host is windows or linux.
DependencyIsolation ==
    \A n \in Nodes :
        /\ n.at # <<>> =>
              EnabledNames(n.leaf) = (Range(n.asked) \cup {host}) \cap Universe(n.leaf)
        /\ host \in Universe(n.leaf) => host \in EnabledNames(n.leaf)

\* a Leaf with x enabled has a child that declares x and was not asked for
\* it: x is disabled there, the host feature is enabled in both
DependencyIsolationWitness ==
    \E p \in Nodes, c \in Nodes :
        /\ Len(c.at) = Len(p.at) + 1 /\ SubSeq(c.at, 1, Len(p.at)) = p.at
        /\ Len(p.at) >= 1
        /\ "x" \in EnabledNames(p.leaf)
        /\ "x" \in Universe(c.leaf) /\ "x" \notin EnabledNames(c.leaf)
        /\ host \in EnabledNames(p.leaf) /\ host \in EnabledNames(c.leaf)

\* C4: the Features of a Leaf are the names of BASE_FEATURES followed by the
\* declared names, one Feature per position, each enabled iff its name is in
\* the requested list (the declaration's list and the host name); resolution
\* over usable manifests returns a Leaf whatever is requested.
FeatureResolver ==
    /\ (pc # "start" /\ command \in Builds /\ ~DefectReached(<<>>, <<>>))
          => Len(leaf) = 1
    /\ \A n \in Nodes :
        LET universe == <<"windows", "linux">> \o n.leaf.config.package.features
            features == n.leaf.features
        IN /\ Len(features) = Len(universe)
           /\ \A i \in 1..Len(universe) :
                /\ features[i].name = universe[i]
                /\ features[i].enabled <=> universe[i] \in Range(n.asked) \cup {host}

\* a Leaf whose declaration asks for a name outside its universe and for a
\* declared one: the declared one is enabled, a platform feature is disabled
FeatureResolverWitness ==
    \E n \in Nodes :
        /\ \E r \in Range(n.asked) : r \notin Universe(n.leaf)
        /\ \E i \in 3..Len(n.leaf.features) : n.leaf.features[i].enabled
        /\ \E i \in 1..2 : ~n.leaf.features[i].enabled

\* the lists a per-feature table gives for the enabled Features of a Leaf
RECURSIVE ListsOfEnabled(_, _, _)
ListsOfEnabled(table, features, i) ==
    IF i > Len(features) THEN <<>>
    ELSE (IF features[i].enabled /\ features[i].name \in DOMAIN table
          THEN table[features[i].name] ELSE <<>>)
         \o ListsOfEnabled(table, features, i + 1)

\* C5 as stated: the children of a Leaf are those of its base dependencies
\* followed by those of the per-feature lists of its enabled features, each
\* feature once, in feature-declaration order.
DependencyFlattening ==
    \A n \in Nodes :
        LET config == n.leaf.config
            expected == config.dependencies.base
                        \o ListsInOrder(config.dependencies.features,
                                        BASE_FEATURES \o config.package.features,
                                        Range(n.asked) \cup {host}, 1)
        IN /\ Len(n.leaf.dependencies) = Len(expected)
           /\ \A i \in 1..Len(expected) :
                n.leaf.dependencies[i].path = n.leaf.path \o expected[i].path[1]

\* C6: the defines and the system libraries of a Leaf are the base list
\* followed by the per-feature lists of the Features enabled in that Leaf;
\* with x declared, base define A and define B=1 under x they are [A] with x
\* disabled and [A, B=1] with x enabled.
FeatureGating ==
    \A n \in Nodes :
        LET config == n.leaf.config
        IN /\ n.leaf.defines =
                config.defines.base
                \o ListsOfEnabled(config.defines.features, n.leaf.features, 1)
           /\ n.leaf.libraries =
                config.libraries.base
                \o ListsOfEnabled(config.libraries.features, n.leaf.features, 1)
           /\ (config.package.name = "c" /\ config.package.features = <<"x">>) =>
                n.leaf.defines =
                    IF "x" \in EnabledNames(n.leaf)
                    THEN <<Define("A", <<>>), Define("B", <<"1">>)>>
                    ELSE <<Define("A", <<>>)>>

\* c declares x alone and has x enabled: its defines are [A, B=1] and its
\* libraries [z, ssl], while its parent b has x enabled too and its child dx
\* has x disabled and only the base define
FeatureGatingWitness ==
    \E n \in Nodes, d \in Nodes :
        /\ n.leaf.config.package.name = "c"
        /\ n.leaf.config.package.features = <<"x">>
        /\ n.leaf.defines = <<Define("A", <<>>), Define("B", <<"1">>)>>
        /\ n.leaf.libraries = <<"z", "ssl">>
        /\ d.at = n.at \o <<2>>
        /\ "x" \in Universe(d.leaf)
        /\ d.leaf.defines = <<Define("D", <<>>)>>

\* the Leaf whose sources the current Compiler::compile was called for
Compiling == LeafAt(Top.at)

\* an entry of the src directory of the Leaf being compiled is among the
\* sources handed to Compiler::compile
Selected(entry) ==
    [dir |-> Compiling.path \o <<"src">>, file |-> entry] \in Range(sources)

SourcesChosen == pc = "compile" /\ phase \in {"units", "archive"}

\* C7: an entry <stem>.<tag>.c of the src directory is among the selected
\* sources iff <tag> names no Feature of the Leaf or names an enabled one.
TaggedSourceSelection ==
    SourcesChosen =>
        \A e \in Range(fs[Canonical(Compiling.path)].src) :
            (Len(e) >= 3 /\ e[Len(e)] = "c") =>
                (Selected(e) <=>
                    \/ e[Len(e) - 1] \notin Universe(Compiling)
                    \/ e[Len(e) - 1] \in EnabledNames(Compiling))

\* x declared and enabled, y not declared: foo.c, foo.x.c and foo.y.c are all
\* selected
TaggedSourceSelectionWitness ==
    /\ SourcesChosen
    /\ "x" \in EnabledNames(Compiling) /\ "y" \notin Universe(Compiling)
    /\ sources = [i \in 1..3 |->
                    [dir |-> <<"b", "c", "src">>,
                     file |-> << <<"foo", "c">>, <<"foo", "x", "c">>,
                                 <<"foo", "y", "c">> >>[i]]]

\* C8 as stated: an entry <stem>.c whose stem has a single segment is among
\* the selected sources of every Leaf, whatever the stem and the Features.
UntaggedSourceSelection ==
    SourcesChosen =>
        \A e \in Range(fs[Canonical(Compiling.path)].src) :
            (Len(e) = 2 /\ e[1] # "" /\ e[2] = "c") => Selected(e)

\* C9 as stated: the include flags of the Compiler that compiles the sources
\* of a Leaf name its own include and src directories and the include
\* directory of every Leaf below it.
TransitiveIncludes ==
    SourcesChosen =>
        LET flags == Range(compiler[1].compile_flags)
        IN /\ Flag("-I", Compiling.path \o <<"include">>) \in flags
           /\ Flag("-I", Compiling.path \o <<"src">>) \in flags
           /\ \A d \in Below(Compiling, Top.at) :
                 Flag("-I", LeafAt(d).path \o <<"include">>) \in flags

\* C10: the artifacts of the Binary link hold the object of target/main.c, the
\* archive of the root, the archive of every Leaf of the tree and every
\* archive the build has written.
FinalLinkArchives ==
    \A i \in 1..Len(log) :
        log[i].tool = "ld" =>
            LET artifacts == Range(log[i].args)
            IN /\ [dir |-> <<"target", "objects", "target">>, file |-> <<"main", "o">>]
                    \in artifacts
               /\ [dir |-> <<"target">>,
                   file |-> <<"lib", leaf[1].config.package.name, "a">>] \in artifacts
               /\ \A n \in Nodes :
                    [dir |-> <<"target">>,
                     file |-> <<"lib", n.leaf.config.package.name, "a">>] \in artifacts
               /\ \A j \in 1..(i - 1) :
                    (log[j].tool = "ar" /\ log[j].result = "ok") => log[j].out \in artifacts

\* the Binary of a tree with a Leaf three levels below the root is linked
FinalLinkArchivesWitness ==
    /\ pc = "done"
    /\ \E n \in Nodes : Len(n.at) >= 3
    /\ \E i \in 1..Len(log) :
        /\ log[i].tool = "ld" /\ log[i].result = "ok"
        /\ Len(log[i].args) = Cardinality(Nodes) + 1
\* the Binary link has been issued: compiler is the Compiler it was issued from
BinaryLinked == \E i \in 1..Len(log) : log[i].tool = "ld"

\* C11 as stated: the link flags of the Binary link name the flattened system
\* libraries of every Leaf of the tree, the root's and those of every
\* dependency at any depth.
FinalLinkSystemLibraries ==
    BinaryLinked =>
        \A n \in Nodes :
            \A k \in 1..Len(n.leaf.libraries) :
                Flag("-l", <<n.leaf.libraries[k]>>) \in Range(compiler[1].link_flags)

\* the output paths the invocation at position i of the log writes: the
\* object of every source handed to Compiler::compile, the archive or Binary
\* of Compiler::link
Written(i) ==
    IF log[i].tool = "cc"
    THEN {ObjectOf(NewCompiler(<<"target">>), log[i].args[k]) : k \in 1..Len(log[i].args)}
    ELSE IF log[i].tool \in {"ar", "ld"} THEN {log[i].out} ELSE {}

\* C12 as stated: no object path and no archive path is written by the
\* Leaf::compile of two different Leaves of the tree, and no two parallel
\* compilations of one Compiler::compile write the same object path.
OutputPathDisjointness ==
    /\ \A i \in 1..Len(log), j \in 1..Len(log) :
          (log[i].by = "compile" /\ log[j].by = "compile" /\ log[i].at # log[j].at)
              => Written(i) \cap Written(j) = {}
    /\ \A i \in 1..Len(log) :
          log[i].tool = "cc" =>
              \A k \in 1..Len(log[i].args), l \in 1..Len(log[i].args) :
                  k # l => ObjectOf(NewCompiler(<<"target">>), log[i].args[k])
                           # ObjectOf(NewCompiler(<<"target">>), log[i].args[l])

\* the dependency declarations in effect in a Leaf as the manifest gives
\* them: the base list and the list of every requested feature of the
\* universe, each feature once
DeclarationsOf(n) ==
    n.leaf.config.dependencies.base
    \o ListsInOrder(n.leaf.config.dependencies.features,
                    BASE_FEATURES \o n.leaf.config.package.features,
                    Range(n.asked) \cup {host}, 1)

\* the children of a Leaf that a declaration accounts for: they are resolved
\* from its directory with its features and the host name
ChildrenFor(n, d) ==
    {i \in 1..Len(n.leaf.dependencies) :
        LET child == n.leaf.dependencies[i]
        IN /\ d.path # <<>> /\ child.path = n.leaf.path \o d.path[1]
           /\ EnabledNames(child) = (Range(d.features) \cup {host}) \cap Universe(child)}

\* the invocations of a tool that Leaf::compile has issued for a Leaf
IssuedFor(tool, at) ==
    {i \in 1..Len(log) : log[i].tool = tool /\ log[i].by = "compile" /\ log[i].at = at}

\* C13 as stated: every Leaf has one child per dependency declaration in
\* effect: a directory declared k times with a feature list has k children
\* resolved with that list, and no others; in a finished build the sources of
\* every Leaf of the tree were compiled once and archived once.
NoDeduplication ==
    /\ \A n \in Nodes :
          LET declared == DeclarationsOf(n)
          IN /\ Len(n.leaf.dependencies) = Len(declared)
             /\ \A k \in 1..Len(declared) :
                   Cardinality(ChildrenFor(n, declared[k])) =
                       Cardinality({j \in 1..Len(declared) :
                                      /\ declared[j].path = declared[k].path
                                      /\ Range(declared[j].features)
                                           = Range(declared[k].features)})
    /\ pc = "done" =>
          \A n \in Nodes :
              /\ Cardinality(IssuedFor("cc", n.at)) = 1
              /\ Cardinality(IssuedFor("ar", n.at)) = 1

\* C14: every Library link directly follows the Compiler::compile of the
\* sources of the same Leaf, with no invocation in between; when the Binary
\* link succeeds, every Leaf of the tree, the root included, has had exactly
\* one Library link, target/main.c has been written, the link is the only
\* Binary link, it is the root's, and no Library link follows it.
UniformArchiveStep ==
    /\ \A i \in 1..Len(log) :
          log[i].tool = "ar" =>
              /\ i > 1
              /\ log[i - 1].tool = "cc" /\ log[i - 1].by = "compile"
              /\ log[i - 1].at = log[i].at
    /\ \A i \in 1..Len(log) :
          (log[i].tool = "ld" /\ log[i].result = "ok") =>
              /\ \A n \in Nodes :
                    Cardinality({j \in 1..(i - 1) :
                                   log[j].tool = "ar" /\ log[j].at = n.at}) = 1
              /\ \A j \in (i + 1)..Len(log) : log[j].tool \notin {"ar", "ld"}
              /\ \A j \in 1..(i - 1) : log[j].tool # "ld"
              /\ main_c # <<>>
              /\ log[i].at = <<>>
              /\ log[i].out = [dir |-> <<"target">>,
                               file |-> <<leaf[1].config.package.name>>]

\* a tree of seven Leaves and more, one directory in it twice, is built and
\* linked: as many Library links as Leaves, then the Binary link
UniformArchiveStepWitness ==
    /\ pc = "done"
    /\ Cardinality(Nodes) >= 7
    /\ Cardinality({j \in 1..Len(log) : log[j].tool = "ar"}) = Cardinality(Nodes)
    /\ log[Len(log)].tool = "ld" /\ log[Len(log)].result = "ok"

\* C15: when the manifest of the root or of a dependency in effect at any depth
\* is missing or does not parse, or a dependency declaration in effect has no
\* path, a build (brew, pour, sip) ends in failure at its first step, no Leaf
\* tree exists, no compiler, archiver or linker has been invoked, and the
\* invocation has written nothing: no directory is created and target/main.c
\* is as it was before.
ManifestErrorsAbort ==
    /\ []((command \in Builds /\ DefectReached(<<>>, <<>>)) =>
            /\ pc \in {"start", "failed"}
            /\ leaf = <<>> /\ log = <<>>)
    /\ [][(command \in Builds /\ pc = "start" /\ DefectReached(<<>>, <<>>))
              => (pc' = "failed" /\ UNCHANGED <<fs, main_c, leaf, log>>)]_vars

\* the manifest of b/c/dy, two levels below the root, is unusable and c is
\* asked for y: the command has failed
ManifestErrorsAbortWitness ==
    /\ pc = "failed"
    /\ <<"b", "c">> \in DOMAIN fs /\ ~Unusable(<<"b", "c">>)
    /\ Unusable(<<"b", "c", "dy">>)
    /\ DefectReached(<<>>, <<>>)

\* the lines of nm whose first five characters are test_, in their order
RECURSIVE TestNames(_)
TestNames(lines) ==
    IF lines = <<>> THEN <<>>
    ELSE (IF Head(lines) # <<>> /\ Head(Head(lines)) = "test_"
          THEN <<Head(lines)>> ELSE <<>>)
         \o TestNames(Tail(lines))

\* the functions the main of the generated test runner calls, in order
Callees == [i \in 1..Len(main_c[1].body) |-> main_c[1].body[i].callee]

RunnerWritten == command = "sip" /\ main_c # <<>>

\* sip with no test among the lines of nm: the runner is compiled, linked and
\* run like any other, and the run does not fail
VacuousRunGoesOn ==
    /\ \A i \in 1..Len(log) : log[i].tool = "run" => log[i].result = "ok"
    /\ pc = "done" => \E i \in 1..Len(log) : log[i].tool = "ld" /\ log[i].result = "ok"
    /\ pc = "failed" => (UnitFailed \/ log[Len(log)].result # "ok")

\* sip with no test among the lines of nm: the command ends well only after
\* the runner was linked and its run has exited with 0, and it fails only
\* where a tool has failed (the compilation of target/main.c, the link or
\* the run); the empty list of tests is no error of its own
VacuousRunIsNoErrorOfSip ==
    /\ pc = "done" =>
          /\ log[Len(log)].tool = "run" /\ log[Len(log)].result = "ok"
          /\ \E i \in 1..Len(log) : log[i].tool = "ld" /\ log[i].result = "ok"
    /\ pc = "failed" => (UnitFailed \/ log[Len(log)].result # "ok")
    /\ pc \in {"done", "failed"} \/ ENABLED NextMatched

\* C16 as stated: the main of the test runner calls the lines of nm that start
\* with test_, in the order of nm, and calls nothing else; with no such line
\* its body is empty, it is still linked and run, and the run is no error.
HarnessCallsOnlyTests ==
    RunnerWritten =>
        /\ Callees = TestNames(symbols)
        /\ main_c[1].declares = TestNames(symbols)
        /\ TestNames(symbols) = <<>> => (main_c[1].body = <<>> /\ VacuousRunGoesOn)

\* C16 amended: for each line of nm that starts with test_, in the order of
\* nm, the main of the test runner calls printf with a line naming the test
\* and then the test, and nothing else; every test is declared; with no such
\* line the body is empty and the runner is still compiled, linked and run
\* (no step is skipped and the command does not stop before the run): the
\* command ends well when the run exits with 0 and fails only where one of
\* these tools fails.
HarnessSynthesis ==
    [](RunnerWritten =>
        LET tests == TestNames(symbols)
            body == main_c[1].body
        IN /\ Len(body) = 2 * Len(tests)
           /\ \A k \in 1..Len(tests) :
                /\ body[2 * k - 1] = [callee |-> <<"printf">>,
                                      args |-> <<"Testing ", tests[k], "\\n">>]
                /\ body[2 * k] = [callee |-> tests[k], args |-> <<>>]
           /\ main_c[1].declares = tests
           /\ tests = <<>> =>
                /\ body = <<>>
                /\ VacuousRunIsNoErrorOfSip)

\* nm printed test_b, atest_ and test_a: the runner calls test_b then test_a,
\* was linked and has run
HarnessSynthesisWitness ==
    /\ command = "sip" /\ pc = "done"
    /\ symbols = << <<"test_", "b">>, <<"a", "test_">>, <<"test_", "a">> >>
    /\ Len(main_c[1].body) = 4
    /\ log[Len(log)].tool = "run"

\* C17: in brew and pour the generated translation unit declares
\* <name>_main and its main calls <name>_main once and nothing else, where
\* <name> is the package name of the root manifest, whatever that name is; the
\* entry function of no dependency of another name is called; the unit is
\* written before the link.
EntryShimOfRoot ==
    command \in {"brew", "pour"} =>
        /\ pc \in {"link", "run", "done"} => main_c # <<>>
        /\ main_c # <<>> =>
              LET root == load_config(<<>>).package.name
              IN /\ main_c[1].calls = << <<root, "_main">> >>
                 /\ main_c[1].declares = << <<root, "_main">> >>
                 /\ \A n \in Nodes :
                       n.leaf.config.package.name # root =>
                           <<n.leaf.config.package.name, "_main">>
                               \notin Range(main_c[1].calls)

\* pour of a root package named tea with dependencies b, c, d0, dx, lx: main
\* calls tea_main, the Binary was linked and has run
EntryShimOfRootWitness ==
    /\ command = "pour" /\ pc = "done"
    /\ load_config(<<>>).package.name = "tea"
    /\ Cardinality(Nodes) >= 5
    /\ main_c = << [declares |-> << <<"tea", "_main">> >>,
                    calls |-> << <<"tea", "_main">> >>] >>
    /\ log[Len(log)].tool = "run"

\* the parallel compilations of the current Compiler::compile that succeeded
Succeeded == {i \in DOMAIN units : units[i] = "ok"}

\* C19: under every interleaving of the parallel compilations of a Leaf with N
\* selected sources, the Library link is issued only when all N compilations
\* have succeeded, and the progress counter is then N; while they run the
\* counter is the number of compilations that succeeded; whether
\* Compiler::compile returns, panics or still waits follows from the states of
\* the compilations alone.
JoinAll ==
    /\ [](phase = "units" => progress = Cardinality(Succeeded))
    /\ []((pc = "compile" /\ phase = "archive") =>
            /\ Len(units) = Len(sources)
            /\ Succeeded = 1..Len(sources)
            /\ progress = Len(sources))
    /\ []((log # <<>> /\ log[Len(log)].tool = "ar") =>
            /\ log[Len(log) - 1].tool = "cc"
            /\ Succeeded = 1..Len(log[Len(log) - 1].args)
            /\ progress = Len(log[Len(log) - 1].args))
    /\ [](ENABLED Join <=>
            /\ phase = "units"
            /\ \A i \in DOMAIN units : units[i] # "running"
            /\ UnitFailed \/ \A i \in DOMAIN units : units[i] # "pending")
    /\ [][Join => (IF UnitFailed THEN pc' = "failed" /\ phase' = phase
                   ELSE pc' = pc /\ phase' \in {"archive", "binary"})]_vars

\* the three sources of c have all been compiled and the Library link of c is
\* next
JoinAllWitness ==
    /\ pc = "compile" /\ phase = "archive"
    /\ Len(sources) = 3
    /\ progress = 3
    /\ Compiling.config.package.name = "c"

\* the object a source is compiled to: under target/objects, at the path of
\* the source with its last segment replaced by o
ObjectPathOf(p) ==
    [dir |-> <<"target", "objects">> \o p.dir,
     file |-> SubSeq(p.file, 1, Len(p.file) - 1) \o <<"o">>]

IsLibraryPath(p) == p.file[Len(p.file)] = "a"

IsObjectPath(p) == p.file[Len(p.file)] = "o"

\* the names of the add_static_library calls made so far, in call order
LibrariesAdded ==
    LET adds == SelectSeq(log, LAMBDA c : c.call = "add_static_library")
    IN [k \in 1..Len(adds) |-> adds[k].arg]

\* C20: after any sequence of compile and add_static_library calls on one
\* Compiler, no library path of the artifact list precedes an object path, the
\* library paths are target/lib<name>.a for the names added, in the order
\* added, and a compile that succeeds puts the object of every source of its
\* list, one per source, in front of the artifacts there were and changes
\* nothing else of the list.
ArtifactListShape ==
    /\ [](LET artifacts == compiler[1].objects
          IN /\ \A i \in 1..Len(artifacts), j \in 1..Len(artifacts) :
                   (IsLibraryPath(artifacts[i]) /\ IsObjectPath(artifacts[j])) => j < i
             /\ SelectSeq(artifacts, IsLibraryPath)
                  = [k \in 1..Len(LibrariesAdded) |->
                       [dir |-> <<"target">>, file |-> <<"lib", LibrariesAdded[k], "a">>]])
    /\ [][(Len(log') > Len(log) /\ log'[Len(log')].call = "compile"
             /\ log'[Len(log')].result = "ok") =>
            LET paths == log'[Len(log')].arg
                before == compiler[1].objects
                after == compiler'[1].objects
            IN /\ Len(after) = Len(before) + Len(paths)
               /\ SubSeq(after, Len(paths) + 1, Len(after)) = before
               /\ \A k \in 1..Len(paths) :
                     after[Len(paths) + 1 - k] = ObjectPathOf(paths[k])]_vars

\* a library was added, then three sources were compiled, then another
\* library was added: three objects, then the two libraries
ArtifactListShapeWitness ==
    /\ pc = "engine"
    /\ Len(log) = 3
    /\ log[1].call = "add_static_library" /\ log[3].call = "add_static_library"
    /\ log[2].call = "compile" /\ Len(log[2].arg) = 3
    /\ Len(compiler[1].objects) = 5
    /\ IsObjectPath(compiler[1].objects[3]) /\ IsLibraryPath(compiler[1].objects[4])

\* C21: the artifacts of every Library link are the objects of the sources
\* handed to the Compiler::compile of the same Leaf just before, one per
\* source and nothing more: every one is an object under
\* target/objects/<directory of the Leaf>/src, none is an archive, and none is
\* under the directory of a Leaf of another package directory.
ArchiveInputsOwnObjects ==
    \A i \in 1..Len(log) :
        log[i].tool = "ar" =>
            LET own == log[i - 1].args
                artifacts == log[i].args
                dir == LeafAt(log[i].at).path
            IN /\ Len(artifacts) = Len(own)
               /\ Range(artifacts) = {ObjectPathOf(own[k]) : k \in 1..Len(own)}
               /\ \A k \in 1..Len(artifacts) :
                     /\ IsObjectPath(artifacts[k])
                     /\ ~IsLibraryPath(artifacts[k])
                     /\ artifacts[k].dir = <<"target", "objects">> \o dir \o <<"src">>
               /\ \A n \in Nodes :
                     n.leaf.path # dir =>
                         \A k \in 1..Len(artifacts) :
                             artifacts[k].dir
                                 # <<"target", "objects">> \o n.leaf.path \o <<"src">>

\* b is archived from its two objects after its dependency c, and the
\* dependencies of c, were archived from theirs
ArchiveInputsOwnObjectsWitness ==
    \E i \in 1..Len(log) :
        /\ log[i].tool = "ar" /\ log[i].at = <<1>> /\ log[i].result = "ok"
        /\ Len(log[i].args) = 2
        /\ \E j \in 1..(i - 1) :
              log[j].tool = "ar" /\ log[j].at = <<1, 1>> /\ Len(log[j].args) = 2
        /\ \E j \in 1..(i - 1) :
              log[j].tool = "ar" /\ Len(log[j].at) = 3 /\ Len(log[j].args) = 1

\* index path a comes before index path b in depth-first pre-order: a is a
\* proper prefix of b, or a has the smaller index where they first differ
Before(a, b) ==
    \/ Len(a) < Len(b) /\ SubSeq(b, 1, Len(a)) = a
    \/ \E k \in 1..Len(a) :
          /\ k <= Len(b)
          /\ SubSeq(a, 1, k - 1) = SubSeq(b, 1, k - 1)
          /\ a[k] < b[k]

\* the position of a Leaf in the artifact list of the Binary link when the
\* archives follow the object of target/main.c in depth-first pre-order
PlaceOf(at) == 2 + Cardinality({m \in Nodes : Before(m.at, at)})

ArchiveOf(n) == [dir |-> <<"target">>, file |-> <<"lib", n.leaf.config.package.name, "a">>]

\* C22: the artifact list of the Binary link is the object of target/main.c
\* followed by one archive per Leaf of the tree in depth-first pre-order, so
\* the archive of every Leaf has an occurrence in front of the places of the
\* archives of all Leaves below it.
FinalLinkOrder ==
    \A i \in 1..Len(log) :
        log[i].tool = "ld" =>
            LET artifacts == log[i].args
            IN /\ Len(artifacts) = 1 + Cardinality(Nodes)
               /\ artifacts[1] = [dir |-> <<"target", "objects", "target">>,
                                  file |-> <<"main", "o">>]
               /\ \A n \in Nodes : artifacts[PlaceOf(n.at)] = ArchiveOf(n)
               /\ \A n \in Nodes :
                     \E k \in 2..Len(artifacts) :
                         /\ artifacts[k] = ArchiveOf(n)
                         /\ \A m \in Nodes :
                               (Len(m.at) > Len(n.at) /\ SubSeq(m.at, 1, Len(n.at)) = n.at)
                                   => k < PlaceOf(m.at)

\* the Binary of app is linked from main.o, libapp.a, libb.a, libc.a, libd0.a,
\* libdx.a and, last, liblx.a
FinalLinkOrderWitness ==
    /\ BinaryLinked
    /\ LET artifacts == log[Len(log)].args
       IN /\ log[Len(log)].tool = "ld"
          /\ Len(artifacts) = 7
          /\ [k \in 2..7 |-> artifacts[k].file[2]]
               = [k \in 2..7 |-> <<"app", "b", "c", "d0", "dx", "lx">>[k - 1]]

\* the declarations in effect, followed from a directory asked for a feature
\* list, come to a directory that is being resolved already (onpath: the
\* directories from the root down to the one that declares dir)
RECURSIVE CycleReached(_, _, _)
CycleReached(dir, asked, onpath) ==
    \/ dir \in onpath
    \/ /\ ~Unusable(dir)
       /\ LET config == load_config(dir)
              declared == config.dependencies.base
                          \o ListsInOrder(config.dependencies.features,
                                          BASE_FEATURES \o config.package.features,
                                          Range(asked) \cup {host}, 1)
          IN \E k \in 1..Len(declared) :
                /\ declared[k].path # <<>>
                /\ CycleReached(Canonical(dir \o declared[k].path[1]),
                                declared[k].features, onpath \cup {dir})

Acyclic == ~CycleReached(<<>>, <<>>, {})

\* C23: whenever the declarations in effect, followed from the root, never
\* come to a directory already on the current path, the resolution ends: it
\* returns the Leaf of the root or aborts on a manifest error. Nothing else
\* ends it: a resolution that returns a Leaf has met no such directory, the
\* Leaf it returns is the one from_config gives, and an abort happens only
\* where a manifest is unusable or a declaration has no path; beyond that the
\* process ends only where the calls of a tree with such a directory have
\* nested as deep as the process can hold, and never with a Leaf.
ResolutionTerminates ==
    /\ (pc = "start" /\ Acyclic) ~> (pc \in {"resolved", "failed"})
    /\ [](pc = "resolved" =>
            /\ Acyclic
            /\ stack = <<>>
            /\ leaf = <<from_config(load_config(<<>>), add_default_features(<<>>), <<>>)>>)
    /\ [](pc = "failed" =>
            \/ ~Loads(<<>>)
            \/ LET declared == FlattenDependencies(Top.config, Top.enabled_features)
               IN \/ declared[Top.next].path = <<>>
                  \/ Unusable(Canonical(Top.path \o declared[Top.next].path[1]))
                  \/ ~Acyclic /\ Len(stack) = MaxDepth /\ Enters)

\* an acyclic tree of six Leaves, d0 twice among them, has been resolved
\* through four nested calls
ResolutionTerminatesWitness ==
    /\ pc = "resolved"
    /\ Acyclic
    /\ Cardinality(Nodes) >= 7
    /\ \E n \in Nodes : Len(n.at) = 3 /\ n.leaf.path = <<"b", "c", "d0">>

\* the resolution of a tree with a cycle among the declarations in effect
\* has run into ever deeper calls of from_config for one directory until the
\* process ended
CycleDescends ==
    /\ pc = "failed"
    /\ ~Acyclic
    /\ Len(stack) = MaxDepth
    /\ \E i, j \in 1..Len(stack) :
          i < j /\ Canonical(stack[i].path) = Canonical(stack[j].path)
====
